---- MODULE Spec2Model ----
(***************************************************************************)
(* A model of the command aggregation service (CommandService) and of the *)
(* extension update transaction of DD0630/gemini-cli.                      *)
(*                                                                         *)
(* The source holds three revisions of CommandService:                     *)
(*   "A"  src/unnamed/part_002: reloadCommands(externalSignal?), try/catch *)
(*   "B"  src/unnamed/part_003: reloadCommands(), the controller is        *)
(*        cleared in a finally clause                                      *)
(*   "C"  src/packages/cli/src/utils/commands.test.ts:268-402: the static  *)
(*        factory create() that also builds the lookup map                 *)
(* The variable revision says which one was constructed.                   *)
(***************************************************************************)
EXTENDS Integers, Sequences, FiniteSets, TLC

(***************************************************************************)
(* Bounds of the model.                                                    *)
(***************************************************************************)
\* reloadCommands calls made on one service
MaxCalls == 3
\* of them, calls made with a caller-supplied signal
MaxExternalCalls == 2
\* reloadCommands calls made while listeners subscribe and unsubscribe
MaxListenCalls == 1
\* registrations held by the service at one time
MaxListeners == 2
\* calls of one unsubscribe function
MaxUnsubscribeCalls == 2
\* length of the loaders array handed to the constructor
NumLoaders == 2
\* commands one loader returns from one loadCommands call (create runs)
MaxCmdsPerLoader == 2
\* versions an extension source can carry
MaxVersion == 3
\* install/update/uninstall calls made on the manager
MaxOps == 4
\* properties, at all depths, of the three objects handed to deepMerge
MaxProps == 4
\* pieces of text of a typed command line
MaxQueryLen == 6
\* reloadCommands calls made while the order of settlement is recorded
MaxSettleCalls == 2
\* calls of refreshCommands() on a CommandRefresher on its own
MaxRefreshCalls == 8
\* command-line arguments after the script path
MaxArgs == 3
\* execute() calls of remote agent invocations
MaxExecutes == 2
\* changes made to .gitignore files while a GitIgnoreParser is in use
MaxWrites == 2

Loaders == 1..NumLoaders

(***************************************************************************)
(* SlashCommand objects.  extensionName = "" stands for an undefined       *)
(* extensionName, hasSub = FALSE for undefined subCommands, hasMap = FALSE *)
(* for undefined commandMap.  id names the object a loader returned;       *)
(* fresh = FALSE says the record is that object itself, fresh = TRUE that  *)
(* it is a copy of it made by the service ({ ...cmd }).                    *)
(***************************************************************************)
Cmd(id, name, ext, alts) ==
    [id |-> id, name |-> name, extensionName |-> ext, altNames |-> alts,
     hasSub |-> FALSE, subCommands |-> <<>>, hasMap |-> FALSE, commandMap |-> <<>>,
     fresh |-> FALSE]

WithSub(cmd, subs) ==
    [cmd EXCEPT !.hasSub = TRUE, !.subCommands = subs]

BuiltinHelp == Cmd("builtin-help", "help", "", <<>>)
FileHelp == Cmd("file-help", "help", "", <<>>)
ExtHelp == Cmd("ext-help", "help", "e", <<>>)
FileDotted == Cmd("file-e.help", "e.help", "", <<>>)
MemoryAdd == WithSub(Cmd("add", "add", "", <<>>), <<Cmd("add-file", "file", "", <<"f">>)>>)
Memory == WithSub(Cmd("memory", "memory", "", <<"help">>),
                  <<MemoryAdd, Cmd("clear", "clear", "", <<"c">>)>>)

CommandUniverse == {BuiltinHelp, FileHelp, ExtHelp, FileDotted, Memory}

RECURSIVE SeqsUpTo(_, _)
SeqsUpTo(S, n) ==
    IF n = 0 THEN {<<>>}
    ELSE LET shorter == SeqsUpTo(S, n - 1)
         IN  shorter \cup {Append(s, x) : s \in {t \in shorter : Len(t) = n - 1}, x \in S}

\* what a loader may return to create()
CreateOutputs == SeqsUpTo(CommandUniverse, MaxCmdsPerLoader)

\* what loader l returns to the c-th reloadCommands call: the built-in and
\* file commands come first, the extension set changes between reloads
ReloadOutputs(c, l) ==
    IF l % 2 = 1
    THEN (IF c % 2 = 1 THEN {<<BuiltinHelp>>} ELSE {<<BuiltinHelp, Memory>>})
    ELSE (IF c % 2 = 1 THEN {<<ExtHelp, ExtHelp>>} ELSE {<<ExtHelp>>})

\* the loaders that may fail in the c-th reloadCommands call
FailingLoaders(c) == IF c % 2 = 1 THEN Loaders ELSE {1}

(***************************************************************************)
(* JavaScript Map: insertion-ordered, set() on a present key keeps the     *)
(* key's position and replaces its value.                                  *)
(***************************************************************************)
MapHas(m, k) == \E i \in 1..Len(m) : m[i].key = k

MapGet(m, k) == m[CHOOSE i \in 1..Len(m) : m[i].key = k].value

\* mutant: set() leaves a key that is present as it is
MapSetIfAbsent(m, k, v) ==
    IF MapHas(m, k) THEN m ELSE Append(m, [key |-> k, value |-> v])

MapSet(m, k, v) ==
    IF MapHas(m, k)
    THEN [i \in 1..Len(m) |-> IF m[i].key = k THEN [key |-> k, value |-> v] ELSE m[i]]
    ELSE Append(m, [key |-> k, value |-> v])

MapKeys(m) == {m[i].key : i \in 1..Len(m)}

MapValues(m) == [i \in 1..Len(m) |-> m[i].value]

(***************************************************************************)
(* Promise.allSettled results of the loaders.                              *)
(***************************************************************************)
Pending == [status |-> "pending", value |-> <<>>, reason |-> ""]
Fulfilled(v) == [status |-> "fulfilled", value |-> v, reason |-> ""]
Rejected(r) == [status |-> "rejected", value |-> <<>>, reason |-> r]
Consumed == [status |-> "consumed", value |-> <<>>, reason |-> ""]

RejectReasons == {"Error", "AbortError"}

(***************************************************************************)
(* reloadCommands / create: collecting the fulfilled loaders' commands in  *)
(* loader order (allCommands), and the number of failures handed to        *)
(* debugLogger.debug.                                                      *)
(***************************************************************************)
\* history: the loaders in the order in which their promises settled
VARIABLE settleOrder

\* the position of the last settlement of loader l, 0 if there is none
RECURSIVE LastSettled(_, _)
LastSettled(l, i) ==
    IF i = 0 \/ settleOrder[i] = l THEN i ELSE LastSettled(l, i - 1)

\* mutant: the commands are collected in the order the promises settled
AllCommandsInSettleOrder(results) ==
    LET value(l) == IF results[l].status = "fulfilled" THEN results[l].value ELSE <<>>
        firstOf == IF LastSettled(1, Len(settleOrder)) <= LastSettled(2, Len(settleOrder))
                   THEN 1 ELSE 2
    IN  value(firstOf) \o value(3 - firstOf)

\* mutant: the first failed loader ends the collection (Promise.all)
RECURSIVE CollectUntilFailure(_, _)
CollectUntilFailure(results, l) ==
    IF l > NumLoaders \/ results[l].status # "fulfilled" THEN <<>>
    ELSE results[l].value \o CollectUntilFailure(results, l + 1)

RECURSIVE CollectFrom(_, _)
CollectFrom(results, l) ==
    IF l > NumLoaders THEN <<>>
    ELSE (IF results[l].status = "fulfilled" THEN results[l].value ELSE <<>>)
         \o CollectFrom(results, l + 1)

AllCommands(results) == CollectFrom(results, 1)

LoggedFailures(rev, results) ==
    Cardinality({l \in Loaders :
        /\ results[l].status = "rejected"
        /\ ~(rev = "A" /\ results[l].reason = "AbortError")})

(***************************************************************************)
(* Collision resolution: the loop over allCommands filling commandMap.     *)
(***************************************************************************)
RenamedName(cmd, suffix) ==
    IF suffix = 0 THEN cmd.extensionName \o "." \o cmd.name
    ELSE cmd.extensionName \o "." \o cmd.name \o ToString(suffix)

\* the while loop: renamedName is the name under test, suffix the next one
RECURSIVE FindUnused(_, _, _, _)
FindUnused(commandMap, cmd, renamedName, suffix) ==
    IF MapHas(commandMap, renamedName)
    THEN FindUnused(commandMap, cmd, RenamedName(cmd, suffix), suffix + 1)
    ELSE renamedName

\* mutant: the renamed name is taken without testing it against the map
FinalNameUnchecked(commandMap, cmd) ==
    IF cmd.extensionName # "" /\ MapHas(commandMap, cmd.name)
    THEN RenamedName(cmd, 0)
    ELSE cmd.name

\* mutant: every command whose name is taken is renamed, extension or not
FinalNameAnyKind(commandMap, cmd) ==
    IF MapHas(commandMap, cmd.name)
    THEN FindUnused(commandMap, cmd, RenamedName(cmd, 0), 1)
    ELSE cmd.name

FinalName(commandMap, cmd) ==
    IF cmd.extensionName # "" /\ MapHas(commandMap, cmd.name)
    THEN FindUnused(commandMap, cmd, RenamedName(cmd, 0), 1)
    ELSE cmd.name

\* { ...cmd, name: finalName }: a new object
Renamed(cmd, finalName) == [cmd EXCEPT !.name = finalName, !.fresh = TRUE]

\* mutant: the commands are collected in a list, not in a map keyed by name
ResolveStepPush(commandMap, cmd) ==
    Append(commandMap, [key |-> FinalName(commandMap, cmd),
                        value |-> Renamed(cmd, FinalName(commandMap, cmd))])

ResolveStep(commandMap, cmd) ==
    MapSet(commandMap, FinalName(commandMap, cmd),
           Renamed(cmd, FinalName(commandMap, cmd)))

RECURSIVE ResolveFrom(_, _, _)
ResolveFrom(commandMap, allCommands, i) ==
    IF i > Len(allCommands) THEN commandMap
    ELSE ResolveFrom(ResolveStep(commandMap, allCommands[i]), allCommands, i + 1)

Resolve(allCommands) == ResolveFrom(<<>>, allCommands, 1)

(***************************************************************************)
(* buildLookupMap: the commands with commandMap attached to those that     *)
(* have subCommands (cmds), the map keyed by name and aliases (map), and   *)
(* the objects not made by the service that it assigned a property of      *)
(* (written).                                                              *)
(***************************************************************************)
RECURSIVE SetAliases(_, _, _)
SetAliases(map, cmd, j) ==
    IF j > Len(cmd.altNames) THEN map
    ELSE SetAliases(MapSet(map, cmd.altNames[j], cmd), cmd, j + 1)

\* mutant: a command that has aliases is entered under its aliases only
RECURSIVE FillLookupAliasOrName(_, _, _)
FillLookupAliasOrName(map, cmds, i) ==
    IF i > Len(cmds) THEN map
    ELSE FillLookupAliasOrName(
            IF Len(cmds[i].altNames) > 0 THEN SetAliases(map, cmds[i], 1)
            ELSE MapSet(map, cmds[i].name, cmds[i]),
            cmds, i + 1)

RECURSIVE FillLookup(_, _, _)
FillLookup(map, cmds, i) ==
    IF i > Len(cmds) THEN map
    ELSE FillLookup(SetAliases(MapSet(map, cmds[i].name, cmds[i]), cmds[i], 1), cmds, i + 1)

\* mutant: the sub-commands are not copied, the loader's objects are used
CloneShared(sc) == sc

\* cmd.subCommands.map((sc) => ({ ...sc })): one element
Clone(sc) == [sc EXCEPT !.fresh = TRUE]

\* mutant: the children's own sub-commands are not processed
buildLookupMapShallow(commands) ==
    LET Attach(cmd) ==
            IF cmd.hasSub
            THEN [cmd EXCEPT !.subCommands = [j \in 1..Len(cmd.subCommands) |->
                                                 Clone(cmd.subCommands[j])],
                             !.hasMap = TRUE,
                             !.commandMap = FillLookup(<<>>,
                                 [j \in 1..Len(cmd.subCommands) |-> Clone(cmd.subCommands[j])], 1)]
            ELSE cmd
        attached == [i \in 1..Len(commands) |-> Attach(commands[i])]
    IN  [cmds |-> attached, map |-> FillLookup(<<>>, attached, 1), written |-> {}]

RECURSIVE buildLookupMap(_)
buildLookupMap(commands) ==
    LET Attach(cmd) ==
            IF cmd.hasSub
            THEN LET newSubCommands == [j \in 1..Len(cmd.subCommands) |->
                                           Clone(cmd.subCommands[j])]
                     sub == buildLookupMap(newSubCommands)
                 IN  [cmd |-> [cmd EXCEPT !.subCommands = sub.cmds, !.hasMap = TRUE,
                                          !.commandMap = sub.map],
                      written |-> (IF cmd.fresh THEN {} ELSE {cmd.id}) \cup sub.written]
            ELSE [cmd |-> cmd, written |-> {}]
        attached == [i \in 1..Len(commands) |-> Attach(commands[i])]
        cmds == [i \in 1..Len(commands) |-> attached[i].cmd]
    IN  [cmds |-> cmds, map |-> FillLookup(<<>>, cmds, 1),
         written |-> UNION {attached[i].written : i \in 1..Len(commands)}]

\* the lookup map of a snapshot published by reloadCommands
SnapshotLookup(commands) == buildLookupMap(commands).map

(***************************************************************************)
(* deepMerge (packages/core/src/utils/merge.ts) and the objects it is      *)
(* applied to.  A JavaScript value is a record with its type t and its     *)
(* content v: a number, an array (a sequence), null, undefined, or an      *)
(* object, whose content is a function from its keys to values.  fresh     *)
(* says that an object was created by the call under consideration.        *)
(***************************************************************************)
VARIABLES
    target,        \* the first argument of deepMerge
    source,        \* the second argument of deepMerge
    third,         \* a third object, for merges of three
    merged,        \* the results of the deepMerge calls made on them
    mergePc        \* "build" while the arguments are set up, "done" after the calls

mergeVars == <<target, source, third, merged, mergePc>>

Undefined == [t |-> "undefined", v |-> 0, fresh |-> FALSE]
Null == [t |-> "null", v |-> 0, fresh |-> FALSE]
Num(n) == [t |-> "number", v |-> n, fresh |-> FALSE]
\* an array of one number; like an object, it is indexed by its keys ("0")
Arr(n) == [t |-> "array", v |-> [k \in {"0"} |-> Num(n)], fresh |-> FALSE]
EmptyObject == [t |-> "object", v |-> <<>>, fresh |-> FALSE]

Keys == {"a", "b"}

\* the values a property is given when the arguments are set up
PropertyValues == {Num(1), Arr(1), Null, EmptyObject}

HasKey(obj, key) == key \in DOMAIN obj.v

\* obj[key] = value
SetKey(obj, key, value) ==
    [obj EXCEPT !.v = [k \in (DOMAIN obj.v) \cup {key} |->
                          IF k = key THEN value ELSE obj.v[k]]]

\* mutant: arrays count as objects
isObjectOrArray(item) == item.t \in {"object", "array"}

\* mutant: null counts as an object, as typeof says
isObjectOrNull(item) == item.t \in {"object", "null"}

\* !!item && typeof item === 'object' && !Array.isArray(item)
isObject(item) == item.t = "object"

\* mutant: the target is used as the result and merged into in place
NewObjectInPlace(tgt) ==
    IF tgt.t = "object" THEN tgt ELSE [t |-> "object", v |-> <<>>, fresh |-> TRUE]

\* const result = {}
NewObject(tgt) == [t |-> "object", v |-> <<>>, fresh |-> TRUE]

\* mutant: the value of the source is not looked at when the key is present
MergedValueKeepFirst(resultValue, objValue, both) ==
    IF resultValue.t # "undefined" THEN resultValue ELSE objValue

\* the value assigned to result[key]; both is deepMerge(resultValue, objValue)
MergedValue(resultValue, objValue, both) ==
    IF isObject(resultValue) /\ isObject(objValue) THEN both ELSE objValue

RECURSIVE deepMerge(_, _)
RECURSIVE mergeIntoResult(_, _, _)
\* Object.keys(obj).forEach(...) over the keys not yet visited
mergeIntoResult(result, obj, keys) ==
    IF keys = {} THEN result
    ELSE LET key == CHOOSE k \in keys : TRUE
             resultValue == IF HasKey(result, key) THEN result.v[key] ELSE Undefined
             objValue == obj.v[key]
             both == IF resultValue.t \in {"object", "array", "null"}
                        /\ objValue.t \in {"object", "array", "null"}
                     THEN deepMerge(resultValue, objValue) ELSE Undefined
         IN  mergeIntoResult(
                 SetKey(result, key, MergedValue(resultValue, objValue, both)),
                 obj, keys \ {key})

\* if (!obj) return
MergeIfDefined(result, obj) ==
    IF obj.t \in {"undefined", "null"} THEN result
    ELSE mergeIntoResult(result, obj, DOMAIN obj.v)

deepMerge(tgt, src) ==
    MergeIfDefined(MergeIfDefined(NewObject(tgt), tgt), src)

\* the object the first argument refers to, once the call has returned: the
\* writes to result went to it when result is not an object of its own
TargetAfter(tgt, result) == IF result.fresh THEN tgt ELSE result

\* the value without the marks of who created its objects
RECURSIVE Plain(_)
Plain(value) ==
    [t |-> value.t,
     v |-> IF value.t \in {"object", "array"}
           THEN [k \in DOMAIN value.v |-> Plain(value.v[k])]
           ELSE value.v]

\* the number of properties of a value, at all depths
RECURSIVE Size(_)
RECURSIVE SizeOver(_, _)
SizeOver(obj, keys) ==
    IF keys = {} THEN 0
    ELSE LET key == CHOOSE k \in keys : TRUE
         IN  1 + Size(obj.v[key]) + SizeOver(obj, keys \ {key})

Size(value) == IF value.t = "object" THEN SizeOver(value, DOMAIN value.v) ELSE 0

\* the object at the end of the path is there and has no property key
RECURSIVE CanInsert(_, _, _)
CanInsert(obj, path, key) ==
    /\ obj.t = "object"
    /\ IF path = <<>> THEN ~HasKey(obj, key)
       ELSE /\ HasKey(obj, Head(path))
            /\ CanInsert(obj.v[Head(path)], Tail(path), key)

\* obj.p1.p2...[key] = value
RECURSIVE InsertAt(_, _, _, _)
InsertAt(obj, path, key, value) ==
    IF path = <<>> THEN SetKey(obj, key, value)
    ELSE SetKey(obj, Head(path), InsertAt(obj.v[Head(path)], Tail(path), key, value))

Paths == UNION {[1..n -> Keys] : n \in 0..(MaxProps - 1)}

NoMerge == [done |-> FALSE]

MergeOff ==
    /\ target = Undefined
    /\ source = Undefined
    /\ third = Undefined
    /\ merged = NoMerge
    /\ mergePc = "off"

\* the arguments start undefined or empty
InitArguments ==
    /\ target \in {Undefined, EmptyObject}
    /\ source \in {Undefined, EmptyObject}
    /\ third \in {Undefined, EmptyObject}
    /\ merged = NoMerge
    /\ mergePc = "build"

\* the caller gives one of the three objects one more property
AddProperty ==
    /\ mergePc = "build"
    /\ Size(target) + Size(source) + Size(third) < MaxProps
    /\ \E which \in {"target", "source", "third"}, path \in Paths, key \in Keys,
          value \in PropertyValues :
          LET obj == CASE which = "target" -> target
                       [] which = "source" -> source
                       [] OTHER -> third
          IN  /\ CanInsert(obj, path, key)
              /\ target' = IF which = "target" THEN InsertAt(obj, path, key, value) ELSE target
              /\ source' = IF which = "source" THEN InsertAt(obj, path, key, value) ELSE source
              /\ third' = IF which = "third" THEN InsertAt(obj, path, key, value) ELSE third
    /\ UNCHANGED <<merged, mergePc>>

\* deepMerge(target, source), and the calls on the same objects that the
\* laws of the merge are about
Merge ==
    /\ mergePc = "build"
    /\ LET result == deepMerge(target, source)
       IN  /\ merged' = [done |-> TRUE,
                         targetBefore |-> target,
                         sourceBefore |-> source,
                         result |-> result,
                         withEmpty |-> deepMerge(target, EmptyObject),
                         withUndefined |-> deepMerge(target, Undefined),
                         ontoEmpty |-> deepMerge(EmptyObject, target),
                         ontoUndefined |-> deepMerge(Undefined, target),
                         withSelf |-> deepMerge(target, target),
                         left |-> deepMerge(result, third),
                         right |-> deepMerge(target, deepMerge(source, third))]
           /\ target' = TargetAfter(target, result)
    /\ mergePc' = "done"
    /\ UNCHANGED <<source, third>>

(***************************************************************************)
(* injectStdinIntoArgs(args, stdinData).  A string is the sequence of its  *)
(* pieces, '--prompt' is <<"-", "-", "prompt">>; an array is a record of   *)
(* its elements (elems[i + 1] is the element at index i) and of a flag     *)
(* that says whether it is a new array or the one passed in.               *)
(***************************************************************************)
VARIABLES
    args,        \* the array passed as args, as it is now
    stdinData,   \* the second argument
    injected,    \* the call made and what it returned
    injectPc     \* "off", "call" or "done"

injectVars == <<args, stdinData, injected, injectPc>>

Long(word) == <<"-", "-", word>>
Short(letter) == <<"-", letter>>
BlankLine == <<"\n", "\n">>

BOOLEAN_FLAGS ==
    {Long("debug"), Short("d"), Long("sandbox"), Short("s"), Long("yolo"), Short("y"),
     Long("experimental-acp"), Long("list-extensions"), Short("l"), Long("list-sessions"),
     Long("screen-reader"), Long("help"), Short("h"), Long("version"), Short("v")}

\* stdinData?: string
NoStdin == [defined |-> FALSE, text |-> <<>>]
Stdin(text) == [defined |-> TRUE, text |-> text]

\* !stdinData: undefined or the empty string
Falsy(data) == ~data.defined \/ data.text = <<>>

\* arg.startsWith('-')
StartsWithDash(arg) == Len(arg) > 0 /\ arg[1] = "-"

IsPromptFlag(arg) == arg = Long("prompt") \/ arg = Short("p")

\* mutant: every flag is taken to have a value after it
SkipAfterFlagWithValue(arg) == 2

\* how far the loop moves on after a flag: continue, or i++ and continue
SkipAfterFlag(arg) == IF arg \in BOOLEAN_FLAGS THEN 1 ELSE 2

\* mutant: finalArgs is the array passed in
SpreadAlias(array) == array

\* [...args]: a new array with the same elements
Spread(array) == [array EXCEPT !.fresh = TRUE]

\* `${stdinData}\n\n${value}`
Prepended(data, value) == data.text \o BlankLine \o value

\* finalArgs[i] = value
SetIndex(array, i, value) == [array EXCEPT !.elems[i + 1] = value]

\* the for loop from index i on, and the push after it
RECURSIVE InjectFrom(_, _, _)
InjectFrom(finalArgs, data, i) ==
    IF i >= Len(finalArgs.elems)
    THEN [finalArgs EXCEPT !.elems = @ \o <<Long("prompt"), data.text>>]
    ELSE LET arg == finalArgs.elems[i + 1]
         IN  IF StartsWithDash(arg)
             THEN IF IsPromptFlag(arg) /\ i + 1 < Len(finalArgs.elems)
                  THEN SetIndex(finalArgs, i + 1, Prepended(data, finalArgs.elems[i + 2]))
                  ELSE InjectFrom(finalArgs, data, i + SkipAfterFlag(arg))
             ELSE SetIndex(finalArgs, i, Prepended(data, arg))

injectStdinIntoArgs(array, data) ==
    LET finalArgs == Spread(array)
    IN  IF Falsy(data) THEN finalArgs ELSE InjectFrom(finalArgs, data, 2)

\* the elements of args after node and script, and the texts piped in
ArgValues == {Long("prompt"), Short("p"), Long("debug"), Long("model"), <<"hello">>, <<>>}
StdinValues == {NoStdin, Stdin(<<>>), Stdin(<<"ctx">>), Stdin(<<"hello">>)}

NoInject == [done |-> FALSE]

InjectOff ==
    /\ args = [elems |-> <<>>, fresh |-> FALSE]
    /\ stdinData = NoStdin
    /\ injected = NoInject
    /\ injectPc = "off"

\* process.argv: node, the script, nothing else yet
InitArgs ==
    /\ args = [elems |-> << <<"node">>, <<"script">> >>, fresh |-> FALSE]
    /\ stdinData \in StdinValues
    /\ injected = NoInject
    /\ injectPc = "call"

\* one more argument on the command line
AddArg ==
    /\ injectPc = "call"
    /\ Len(args.elems) < 2 + MaxArgs
    /\ \E value \in ArgValues : args' = [args EXCEPT !.elems = Append(@, value)]
    /\ UNCHANGED <<stdinData, injected, injectPc>>

\* the call; what is written to an array that is args itself shows in args
Inject ==
    /\ injectPc = "call"
    /\ LET result == injectStdinIntoArgs(args, stdinData)
       IN  /\ injected' = [done |-> TRUE, argsBefore |-> args, result |-> result]
           /\ args' = IF result.fresh THEN args ELSE result
    /\ injectPc' = "done"
    /\ UNCHANGED stdinData

(***************************************************************************)
(* RemoteAgentInvocation.execute.  The A2AClientManager is what the        *)
(* invocation is given: getClient reports a client or none, loadAgent and  *)
(* sendMessage settle as the remote side decides.                          *)
(***************************************************************************)
VARIABLES
    executions,    \* the execute() calls: position, what they saw, their promise
    managerCalls   \* history: the calls made on the manager, in order

remoteVars == <<executions, managerCalls>>

Invocations == 1..MaxExecutes

\* what a promise of the manager rejects with, or what is thrown
ErrorOf(message) == [isError |-> TRUE, text |-> message]
Thrown(value) == [isError |-> FALSE, text |-> value]
NoError == [isError |-> FALSE, text |-> ""]

Failures == {ErrorOf("Network error"), Thrown("offline")}

\* SendMessageResult
MessageResponse(parts) == [kind |-> "message", parts |-> parts, taskId |-> ""]
TaskResponse(taskId) == [kind |-> "task", parts |-> <<>>, taskId |-> taskId]
OtherResponse(kind) == [kind |-> kind, parts |-> <<>>, taskId |-> ""]
TextPart(text) == [kind |-> "text", text |-> text]
DataPart == [kind |-> "data", text |-> ""]

Responses ==
    {MessageResponse(<<TextPart("Hello"), DataPart, TextPart("again")>>),
     TaskResponse("12345"),
     OtherResponse("status-update")}

\* parts.filter((p) => p.kind === 'text').map((p) => p.text).join('\n')
RECURSIVE JoinText(_, _, _)
JoinText(parts, i, first) ==
    IF i > Len(parts) THEN ""
    ELSE IF parts[i].kind # "text" THEN JoinText(parts, i + 1, first)
    ELSE (IF first THEN "" ELSE "\n") \o parts[i].text \o JoinText(parts, i + 1, FALSE)

\* error instanceof Error ? error.message : String(error)
ErrorMessage(error) == error.text

Resolved(llmContent, returnDisplay, error) ==
    [state |-> "fulfilled", llmContent |-> llmContent, returnDisplay |-> returnDisplay,
     error |-> error]
NoResult == [state |-> "pending", llmContent |-> "", returnDisplay |-> "", error |-> NoError]
NoToolError == [defined |-> FALSE, message |-> "", type |-> ""]

\* mutant: no catch clause, the promise of execute rejects
CaughtNever(error) ==
    [state |-> "rejected", llmContent |-> "", returnDisplay |-> "",
     error |-> [defined |-> TRUE, message |-> ErrorMessage(error), type |-> ""]]

\* the catch clause
Caught(error) ==
    Resolved("Remote agent invocation failed: " \o ErrorMessage(error),
             "Remote Agent Failed: " \o ErrorMessage(error),
             [defined |-> TRUE, message |-> ErrorMessage(error), type |-> "EXECUTION_FAILED"])

\* what execute does with the response of sendMessage
Respond(response) ==
    IF response.kind = "message"
    THEN Resolved(JoinText(response.parts, 1, TRUE), JoinText(response.parts, 1, TRUE),
                  NoToolError)
    ELSE IF response.kind = "task"
    THEN Resolved("Remote agent started task: " \o response.taskId,
                  "Remote agent started task: " \o response.taskId, NoToolError)
    ELSE Caught(ErrorOf("Received unknown response kind: " \o response.kind))

\* mutant: the agent is loaded whatever getClient reports
NeedsLoadAlways(client) == TRUE

\* if (!manager.getClient(this.definition.name))
NeedsLoad(client) == ~client

NotStarted ==
    [pc |-> "new", client |-> FALSE, loadFailed |-> FALSE, sendFailed |-> FALSE,
     failure |-> NoError, response |-> OtherResponse(""), result |-> NoResult]

RemoteOff ==
    /\ executions = [k \in Invocations |-> NotStarted]
    /\ managerCalls = <<>>

\* execute() up to its first await; client is what getClient returned
Execute(k, client) ==
    /\ executions[k].pc = "new"
    /\ executions' = [executions EXCEPT
          ![k].client = client,
          ![k].pc = IF NeedsLoad(client) THEN "loading" ELSE "sending"]
    /\ managerCalls' = managerCalls
          \o <<[call |-> "getClient", by |-> k]>>
          \o <<[call |-> IF NeedsLoad(client) THEN "loadAgent" ELSE "sendMessage", by |-> k]>>

\* the promise of loadAgent is fulfilled: on to sendMessage
LoadAgentFulfils(k) ==
    /\ executions[k].pc = "loading"
    /\ executions' = [executions EXCEPT ![k].pc = "sending"]
    /\ managerCalls' = Append(managerCalls, [call |-> "sendMessage", by |-> k])

\* the promise of loadAgent is rejected: the catch clause
LoadAgentRejects(k, error) ==
    /\ executions[k].pc = "loading"
    /\ executions' = [executions EXCEPT
          ![k].pc = "done", ![k].loadFailed = TRUE, ![k].failure = error,
          ![k].result = Caught(error)]
    /\ UNCHANGED managerCalls

\* the promise of sendMessage is fulfilled
SendMessageFulfils(k, response) ==
    /\ executions[k].pc = "sending"
    /\ executions' = [executions EXCEPT
          ![k].pc = "done", ![k].response = response, ![k].result = Respond(response)]
    /\ UNCHANGED managerCalls

\* the promise of sendMessage is rejected: the catch clause
SendMessageRejects(k, error) ==
    /\ executions[k].pc = "sending"
    /\ executions' = [executions EXCEPT
          ![k].pc = "done", ![k].sendFailed = TRUE, ![k].failure = error,
          ![k].result = Caught(error)]
    /\ UNCHANGED managerCalls

(***************************************************************************)
(* GitIgnoreParser.  A path is the sequence of its components below the    *)
(* project root, the root itself is <<>>.  A line of a .gitignore file is  *)
(* the sequence of its pieces, '!x' is <<"!", "x">>.  A rule set (the      *)
(* Ignore object of the ignore package) is the sequence of the patterns    *)
(* added to it; the pattern /dir/**/name is the record of dir and name.    *)
(***************************************************************************)
VARIABLES
    gitignores,      \* the .gitignore file of each directory, as it is now
    extraPatterns,   \* this.processedExtraPatterns
    patternCache,    \* this.patternCache
    igCache,         \* this.igCache
    reads,           \* history: how often the .gitignore of each directory was read
    firstRules,      \* history: the rule set of the first isIgnored for a path in each directory
    lastIgnored,     \* history: the last isIgnored call
    writes           \* history: changes made to .gitignore files so far

ignoreVars == <<gitignores, extraPatterns, patternCache, igCache, reads, firstRules,
                lastIgnored, writes>>

Root == <<>>
Dirs == {Root, <<"a">>, <<"a", "b">>}
FileNames == {"x", "y"}
FilePaths == {Append(dir, name) : dir \in Dirs, name \in FileNames}

\* path.dirname
Dirname(path) == SubSeq(path, 1, Len(path) - 1)

NoFile == [exists |-> FALSE, lines |-> <<>>]
File(lines) == [exists |-> TRUE, lines |-> lines]

\* what a .gitignore file may hold
Contents ==
    {NoFile,
     File(<< <<"x">> >>),
     File(<< <<"#", "x">>, <<>>, <<"b">> >>),
     File(<< <<"x">>, <<"!", "x">> >>)}

Pattern(negative, dir, name) == [negative |-> negative, dir |-> dir, name |-> name]

\* processPatterns for lines without a slash: comments and empty lines are
\* dropped, the ! is taken off, the pattern is tied to the directory of
\* its file
RECURSIVE processPatterns(_, _, _)
processPatterns(rawPatterns, relativeBaseDir, i) ==
    IF i > Len(rawPatterns) THEN <<>>
    ELSE LET p == rawPatterns[i]
             isNegative == Len(p) > 0 /\ p[1] = "!"
             rest == IF isNegative THEN Tail(p) ELSE p
         IN  (IF p = <<>> \/ p[1] = "#" \/ rest = <<>>
              THEN <<>>
              ELSE <<Pattern(isNegative, relativeBaseDir, rest[1])>>)
             \o processPatterns(rawPatterns, relativeBaseDir, i + 1)

\* the pattern applies to the path: the path lies below the pattern's
\* directory and has the pattern's name
Matches(pattern, path) ==
    /\ Len(path) > Len(pattern.dir)
    /\ SubSeq(path, 1, Len(pattern.dir)) = pattern.dir
    /\ path[Len(path)] = pattern.name

\* the last pattern that applies decides
RECURSIVE Decides(_, _, _)
Decides(rules, path, i) ==
    IF i = 0 THEN FALSE
    ELSE IF Matches(rules[i], path) THEN ~rules[i].negative
    ELSE Decides(rules, path, i - 1)

\* Ignore.ignores(path): a path below an ignored directory is ignored
RECURSIVE ignores(_, _)
ignores(rules, path) ==
    IF path = <<>> THEN FALSE
    ELSE \/ ignores(rules, Dirname(path))
         \/ Decides(rules, path, Len(rules))

NotCached == [cached |-> FALSE, value |-> <<>>]
CachedAs(value) == [cached |-> TRUE, value |-> value]

\* mutant: the caches are never found to hold a directory
MapHasDirNever(map, dir) == FALSE

\* Map.prototype.has on patternCache and on igCache
MapHasDir(map, dir) == map[dir].cached

Caches(patterns, igs, readCount) ==
    [patternCache |-> patterns, igCache |-> igs, reads |-> readCount]

\* addPatternsToIg(ig, dir): the caches after it, and ig after it
addPatternsToIg(c, ig, dir, files) ==
    IF MapHasDir(c.patternCache, dir)
    THEN [c |-> c, ig |-> ig \o c.patternCache[dir].value]
    ELSE IF files[dir].exists
    THEN LET patterns == processPatterns(files[dir].lines, dir, 1)
         IN  [c |-> Caches([c.patternCache EXCEPT ![dir] = CachedAs(patterns)],
                           c.igCache,
                           [c.reads EXCEPT ![dir] = @ + 1]),
              ig |-> ig \o patterns]
    ELSE [c |-> Caches([c.patternCache EXCEPT ![dir] = CachedAs(<<>>)], c.igCache, c.reads),
          ig |-> ig]

SetIg(r, dir) ==
    [c |-> Caches(r.c.patternCache, [r.c.igCache EXCEPT ![dir] = CachedAs(r.ig)], r.c.reads),
     ig |-> r.ig]

\* ig.add('.git') and the patterns of .git/info/exclude, which is absent
RootRules == <<Pattern(FALSE, Root, ".git")>>

\* getOrCreateIg(dir) for a directory in the project: the caches after it,
\* and the Ignore object returned
RECURSIVE getOrCreateIg(_, _, _, _)
getOrCreateIg(c, dir, files, extras) ==
    IF MapHasDir(c.igCache, dir)
    THEN [c |-> c, ig |-> c.igCache[dir].value]
    ELSE IF dir = Root
    THEN SetIg(addPatternsToIg(c, RootRules, Root, files), dir)
    ELSE LET parent == getOrCreateIg(c, Dirname(dir), files, extras)
         IN  IF ignores(parent.ig \o extras, dir)
             THEN SetIg(parent, dir)
             ELSE SetIg(addPatternsToIg(parent.c, parent.ig, dir, files), dir)

NoCall == [made |-> FALSE, path |-> <<>>, rules |-> <<>>, answer |-> FALSE]
NotSeen == [seen |-> FALSE, rules |-> <<>>]

IgnoreOff ==
    /\ gitignores = [dir \in Dirs |-> NoFile]
    /\ extraPatterns = <<>>
    /\ patternCache = [dir \in Dirs |-> NotCached]
    /\ igCache = [dir \in Dirs |-> NotCached]
    /\ reads = [dir \in Dirs |-> 0]
    /\ firstRules = [dir \in Dirs |-> NotSeen]
    /\ lastIgnored = NoCall
    /\ writes = 0

\* new GitIgnoreParser(projectRoot, extraPatterns) in a project with some
\* .gitignore files
InitParser ==
    /\ gitignores \in [Dirs -> {NoFile, File(<< <<"x">> >>)}]
    /\ extraPatterns \in {<<>>, processPatterns(<< <<"y">> >>, Root, 1)}
    /\ patternCache = [dir \in Dirs |-> NotCached]
    /\ igCache = [dir \in Dirs |-> NotCached]
    /\ reads = [dir \in Dirs |-> 0]
    /\ firstRules = [dir \in Dirs |-> NotSeen]
    /\ lastIgnored = NoCall
    /\ writes = 0

\* somebody writes or removes the .gitignore of a directory
WriteGitignore(dir, content) ==
    /\ writes < MaxWrites
    /\ gitignores[dir] # content
    /\ gitignores' = [gitignores EXCEPT ![dir] = content]
    /\ writes' = writes + 1
    /\ UNCHANGED <<extraPatterns, patternCache, igCache, reads, firstRules, lastIgnored>>

\* isIgnored(filePath) for a file of the project
isIgnored(path) ==
    LET r == getOrCreateIg(Caches(patternCache, igCache, reads), Dirname(path),
                           gitignores, extraPatterns)
        answer == ignores(r.ig \o extraPatterns, path)
    IN  /\ patternCache' = r.c.patternCache
        /\ igCache' = r.c.igCache
        /\ reads' = r.c.reads
        /\ lastIgnored' = [made |-> TRUE, path |-> path, rules |-> r.ig, answer |-> answer]
        /\ firstRules' = IF firstRules[Dirname(path)].seen THEN firstRules
                         ELSE [firstRules EXCEPT ![Dirname(path)] =
                                  [seen |-> TRUE, rules |-> r.ig]]
        /\ UNCHANGED <<gitignores, extraPatterns, writes>>

(***************************************************************************)
(* Resolution of a typed command line (parseSlashCommand).  Its code is    *)
(* not part of the source; this part follows section 4.5 of the            *)
(* specification and the tests in commands.test.ts.                        *)
(***************************************************************************)
VARIABLES
    query,         \* the raw input, a sequence of pieces of text
    tree,          \* the lookup map of the snapshot it is resolved against
    parsed,        \* the result of the resolution
    parsePc        \* "typed" before the resolution, "done" after it

parseVars == <<query, tree, parsed, parsePc>>

utilVars == <<mergeVars, parseVars, injectVars, remoteVars, ignoreVars>>

toolVars == <<utilVars, settleOrder>>

\* the pieces a query is made of: white space, the command prefix, words
Pieces == {" ", "/", "memory", "clear", "x"}

Queries == UNION {[1..n -> Pieces] : n \in 0..MaxQueryLen}

\* the loaded commands of the snapshots the queries are resolved against
ParseInputs == {<<BuiltinHelp, Memory>>, <<Memory, BuiltinHelp>>}

Trees == {SnapshotLookup(MapValues(Resolve(input))) : input \in ParseInputs}

\* the first position from i on that holds no white space
RECURSIVE SkipSpaces(_, _)
SkipSpaces(q, i) ==
    IF i <= Len(q) /\ q[i] = " " THEN SkipSpaces(q, i + 1) ELSE i

\* the position of the last piece that is no white space, 0 if there is none
RECURSIVE TrimEnd(_, _)
TrimEnd(q, i) ==
    IF i >= 1 /\ q[i] = " " THEN TrimEnd(q, i - 1) ELSE i

\* the position after the token that starts at i
RECURSIVE TokenEnd(_, _)
TokenEnd(q, i) ==
    IF i <= Len(q) /\ q[i] # " " THEN TokenEnd(q, i + 1) ELSE i

\* the raw text of the pieces i .. j - 1
RECURSIVE Text(_, _, _)
Text(q, i, j) == IF i >= j THEN "" ELSE q[i] \o Text(q, i + 1, j)

NoCommand == [found |-> FALSE, commandToExecute |-> "", canonicalPath |-> <<>>,
              args |-> "", consumed |-> <<>>]

\* mutant: the first piece is dropped without being looked at
HasPrefixUnchecked(q, start) == TRUE

\* the trimmed input begins with the command prefix
HasPrefix(q, start) == q[start] = "/"

\* mutant: the argument string starts after the token that did not resolve
RemainingAfterToken(q, i, end) == Text(q, SkipSpaces(q, TokenEnd(q, i)), end + 1)

\* the unconsumed raw text, from the first unconsumed token to the end of
\* the trimmed input
Remaining(q, i, end) == Text(q, i, end + 1)

\* mutant: only the top-level lookup is used
DescendsNever(cmd) == FALSE

\* the resolved command has a nested lookup
Descends(cmd) == cmd.hasMap

\* the resolution from the token at i on, against the lookup of the command
\* resolved last
RECURSIVE Descend(_, _, _, _, _)
Descend(q, end, lookup, i, result) ==
    IF i > end THEN result
    ELSE LET j == TokenEnd(q, i)
             word == Text(q, i, j)
         IN  IF MapHas(lookup, word)
             THEN LET cmd == MapGet(lookup, word)
                      next == SkipSpaces(q, j)
                      resolved ==
                          [found |-> TRUE,
                           commandToExecute |-> cmd.id,
                           canonicalPath |-> Append(result.canonicalPath, cmd.name),
                           args |-> Remaining(q, next, end),
                           consumed |-> Append(result.consumed,
                                               [from |-> i, to |-> j, name |-> cmd.name,
                                                altNames |-> cmd.altNames])]
                  IN  IF Descends(cmd)
                      THEN Descend(q, end, cmd.commandMap, next, resolved)
                      ELSE resolved
             ELSE [result EXCEPT !.args = Remaining(q, i, end)]

parseSlashCommand(q, lookup) ==
    LET start == SkipSpaces(q, 1)
        end == TrimEnd(q, Len(q))
    IN  IF start > end THEN NoCommand
        ELSE IF ~HasPrefix(q, start) THEN NoCommand
        ELSE Descend(q, end, lookup, SkipSpaces(q, start + 1), NoCommand)

\* the queries in which one token that resolved by its name is typed as one
\* of the aliases of that command
AliasVariants(q, result) ==
    {[q EXCEPT ![result.consumed[n].from] = result.consumed[n].altNames[a]] :
        <<n, a>> \in {<<n, a>> \in (1..Len(result.consumed)) \X (1..2) :
                        /\ a <= Len(result.consumed[n].altNames)
                        /\ result.consumed[n].to = result.consumed[n].from + 1
                        /\ q[result.consumed[n].from] = result.consumed[n].name}}

NoParse == [done |-> FALSE]

ParseOff ==
    /\ query = <<>>
    /\ tree = <<>>
    /\ parsed = NoParse
    /\ parsePc = "off"

InitQuery ==
    /\ query \in Queries
    /\ tree \in Trees
    /\ parsed = NoParse
    /\ parsePc = "typed"

\* the query is resolved; so are the queries that type an alias
Parse ==
    /\ parsePc = "typed"
    /\ LET result == parseSlashCommand(query, tree)
       IN  parsed' = [done |-> TRUE,
                      result |-> result,
                      aliased |-> {parseSlashCommand(v, tree) :
                                      v \in AliasVariants(query, result)}]
    /\ parsePc' = "done"
    /\ UNCHANGED <<query, tree>>

(***************************************************************************)
(* The extension store and lifecycle manager, for one extension name X.    *)
(* The manager's code is not part of the source; this part follows         *)
(* sections 3, 4.3 and 7 of the specification.  A directory is described   *)
(* by the version of its manifest and by the marker files of its payload   *)
(* (v1.txt is marker 1, v2.txt marker 2, ...).                             *)
(***************************************************************************)
VARIABLES
    storeDir,      \* the directory of X under the extensions root
    stagingDir,    \* candidatePath: the staged, newly acquired content
    extensions,    \* the in-memory Extension record of X
    txn,           \* the InstallTransaction in progress and its position
    lastOp,        \* history: the operation that completed last
    opsStarted,    \* operations started so far
    otherTxn,      \* the transaction in progress on another extension name, Y
    writers,       \* per name, the operations in flight that write its directory
    refresherListeners,  \* CommandRefresher: this.listeners
    refreshCalls,        \* history: calls of refreshCommands() so far
    lastTriggered,       \* history: the callbacks the last refreshCommands() called
    triggered,           \* history: invocations of each callback in the last refreshCommands()
    everSubscribed,      \* history: the callbacks passed to subscribe so far
    unsubscribed,           \* history: callbacks whose unsubscribe was called since their last subscribe
    everUnsubscribed        \* history: callbacks whose unsubscribe was called at some time

serVars == <<otherTxn, writers>>

subVars == <<everSubscribed, unsubscribed, everUnsubscribed>>

refVars == <<refresherListeners, refreshCalls, lastTriggered, triggered, subVars>>

extVars == <<storeDir, stagingDir, extensions, txn, lastOp, opsStarted, serVars, refVars>>

ExtensionNames == {"X", "Y"}

\* the callbacks subscribed to the change notification
RefresherCallbacks == {"aggregator", "ui"}

NoDir == [exists |-> FALSE, version |-> 0, payload |-> {}]
Dir(v) == [exists |-> TRUE, version |-> v, payload |-> {v}]
NoRecord == [present |-> FALSE, version |-> 0, enabled |-> FALSE]
Idle == [pc |-> "idle", version |-> 0, isUpdate |-> FALSE, previousVersion |-> 0]
NoOp == [kind |-> "none", outcome |-> "ok", error |-> "", previousVersion |-> 0, attempted |-> 0]

Versions == 1..MaxVersion

InitStore ==
    /\ storeDir = NoDir
    /\ stagingDir = NoDir
    /\ extensions = NoRecord
    /\ txn = Idle
    /\ lastOp = NoOp
    /\ opsStarted = 0
    /\ otherTxn = Idle
    /\ writers = [n \in ExtensionNames |-> 0]
    /\ refresherListeners = {}
    /\ refreshCalls = 0
    /\ lastTriggered = {}
    /\ triggered = [callback \in RefresherCallbacks |-> 0]
    /\ everSubscribed = {}
    /\ unsubscribed = {}
    /\ everUnsubscribed = {}

Completed(kind, outcome, error, previous, attempted) ==
    [kind |-> kind, outcome |-> outcome, error |-> error,
     previousVersion |-> previous, attempted |-> attempted]

\* installOrUpdateExtension(source, type, previousConfig?): the entry checks
StartError(present, withPrevious) ==
    IF present /\ ~withPrevious THEN "ConflictError"
    ELSE IF ~present /\ withPrevious THEN "NotFoundError"
    ELSE ""

\* mutant: the previous directory was removed for the update and is not restored
RestorePreviousLost(live, staged) == NoDir

\* what a failed validation leaves at the live path: the previous directory
RestorePrevious(live, staged) == live

\* mutant: the staged files are copied over the previous directory
AdoptStagedCopyOver(live, staged) ==
    [staged EXCEPT !.payload = live.payload \cup staged.payload]

\* what the commit leaves at the live path: the staged directory
AdoptStaged(live, staged) == staged

\* mutant: the acquired content is written to the live path
StagedInPlace(live, v) == [live |-> Dir(v), staged |-> NoDir]

\* acquire: the content is materialized in a fresh staging location
Staged(live, v) == [live |-> live, staged |-> Dir(v)]

\* mutant: an operation starts whatever else is in flight
AdmittedAlways(t) == TRUE

\* single writer per name: an operation on a name starts when no other
\* operation on that name is in flight
Admitted(t) == t.pc = "idle"

\* mutant: only installs and updates are followed by a refresh
RefreshesAfterInstallOnly(kind) == kind \in {"install", "update"}

\* the manager calls refreshCommands() after every state-changing operation
RefreshesAfter(kind) == TRUE

\* mutant: the function subscribe returned does nothing
DeleteCallbackNever(set, callback) == set

\* Set.prototype.add and Set.prototype.delete on this.listeners
AddCallback(set, callback) == set \cup {callback}
DeleteCallback(set, callback) == set \ {callback}

\* this.listeners.forEach((listener) => listener()): how often each callback
\* is called
ForEachListener(set) ==
    [callback \in RefresherCallbacks |-> IF callback \in set THEN 1 ELSE 0]

\* CommandRefresher.refreshCommands(): this.listeners.forEach((l) => l())
refreshCommands ==
    /\ refreshCalls' = refreshCalls + 1
    /\ lastTriggered' = refresherListeners
    /\ triggered' = ForEachListener(refresherListeners)
    /\ UNCHANGED <<refresherListeners, subVars>>

\* the end of a state-changing operation that succeeded
Changed(kind) ==
    IF RefreshesAfter(kind) THEN refreshCommands ELSE UNCHANGED refVars

\* the Extension record after a commit
RecordOf(previous, version, isUpdate) ==
    [present |-> TRUE, version |-> version,
     enabled |-> IF isUpdate THEN previous.enabled ELSE TRUE]

(***************************************************************************)
(* State of one CommandService and of the reloadCommands calls in flight.  *)
(***************************************************************************)
VARIABLES
    revision,                \* which revision of the class was constructed
    commands,                \* this.commands
    rootCommandMap,          \* this.rootCommandMap / the snapshot's lookup
    currentAbortController,  \* this.currentAbortController
    aborted,                 \* the signals whose aborted flag is set
    calls,                   \* the reloadCommands calls, in the order they started
    notifyCount,             \* how many times notifyListeners() ran
    lastPublished,           \* history: the call that assigned this.commands last
    listeners,               \* this.listeners, in insertion order
    invoked,                 \* history: invocations of each listener in the last notifyListeners()
    notified,                \* history: this.listeners when the last snapshot was published
    unsubscribeCalls         \* history: calls of a listener's unsubscribe function since its last subscribe

lisVars == <<listeners, invoked, notified, unsubscribeCalls>>

cmdVars == <<revision, commands, rootCommandMap, currentAbortController, aborted,
             calls, notifyCount, lastPublished, lisVars>>

NoController == [kind |-> "null", n |-> 0]
Internal(n) == [kind |-> "internal", n |-> n]
ExternalSignals == {[kind |-> "external", n |-> 1]}

\* mutant: only the first loader is handed the signal of the call
InvokeLoadersFirstWithSignal(signal) ==
    [l \in Loaders |-> IF l = 1 THEN <<signal>> ELSE <<NoController>>]

\* this.loaders.map((loader) => loader.loadCommands(signal)): the arguments
\* of the loadCommands calls made on each loader
InvokeLoaders(signal) == [l \in Loaders |-> <<signal>>]

NewCall(signal, external) ==
    [signal |-> signal, external |-> external,
     loaderCalls |-> InvokeLoaders(signal),
     results |-> [l \in Loaders |-> Pending],
     pc |-> "awaiting", published |-> FALSE, superseded |-> FALSE,
     threw |-> FALSE, abortedAtEnd |-> FALSE]

\* the functions handed to subscribe: f returns, t throws, a aborts the
\* caller's signal and throws
ListenerIds == {"f", "t", "a"}

NoInvocations == [f \in ListenerIds |-> 0]

NoPublish == [call |-> 0, results |-> [l \in Loaders |-> Pending], written |-> {}]

InitService(revs) ==
    /\ revision \in revs
    /\ commands = <<>>
    /\ rootCommandMap = <<>>
    /\ currentAbortController = NoController
    /\ aborted = {}
    /\ calls = <<>>
    /\ notifyCount = 0
    /\ lastPublished = NoPublish
    /\ listeners = <<>>
    /\ invoked = NoInvocations
    /\ notified = <<>>
    /\ unsubscribeCalls = NoInvocations
    /\ settleOrder = <<>>

Awaiting(c) == c \in 1..Len(calls) /\ calls[c].pc = "awaiting"

\* mutant: the first promise that settles ends the wait (Promise.race)
AnySettled(results) == \E l \in Loaders : results[l].status # "pending"

AllSettled(results) == \A l \in Loaders : results[l].status # "pending"

(***************************************************************************)
(* reloadCommands() without a signal, up to its await: the controller in   *)
(* this.currentAbortController is aborted and replaced, every loader is    *)
(* called with the new controller's signal.                                *)
(***************************************************************************)
\* mutant: the controller in flight is replaced without being aborted
AbortCurrentForgotten(current, abortedNow) == abortedNow

AbortCurrent(current, abortedNow) ==
    IF current # NoController THEN abortedNow \cup {current} ELSE abortedNow

ReloadInternal ==
    /\ revision \in {"A", "B"}
    /\ Len(calls) < MaxCalls
    /\ aborted' = AbortCurrent(currentAbortController, aborted)
    /\ currentAbortController' = Internal(Len(calls) + 1)
    /\ calls' = Append(
          [c \in 1..Len(calls) |->
              IF calls[c].pc = "awaiting" /\ ~calls[c].external
              THEN [calls[c] EXCEPT !.superseded = TRUE] ELSE calls[c]],
          NewCall(Internal(Len(calls) + 1), FALSE))
    /\ UNCHANGED <<toolVars, extVars, revision, commands, rootCommandMap, notifyCount, lastPublished, lisVars>>

(***************************************************************************)
(* reloadCommands(externalSignal), up to its await.                        *)
(***************************************************************************)
\* mutant: a call with an external signal also aborts the internal controller
ExternalStartAborting(current, abortedNow, sig) ==
    [controller |-> current, aborted |-> AbortCurrent(current, abortedNow), signal |-> sig]

ExternalStart(current, abortedNow, sig) ==
    [controller |-> current, aborted |-> abortedNow, signal |-> sig]

ReloadExternal(sig) ==
    /\ revision = "A"
    /\ Len(calls) < MaxCalls
    /\ Cardinality({c \in 1..Len(calls) : calls[c].external}) < MaxExternalCalls
    /\ LET start == ExternalStart(currentAbortController, aborted, sig)
       IN  /\ currentAbortController' = start.controller
           /\ aborted' = start.aborted
           /\ calls' = Append(calls, NewCall(start.signal, TRUE))
    /\ UNCHANGED <<toolVars, extVars, revision, commands, rootCommandMap, notifyCount, lastPublished, lisVars>>

(***************************************************************************)
(* A loader's promise settles; the caller of an external signal aborts it. *)
(***************************************************************************)
LoaderFulfil(c, l, v) ==
    /\ Awaiting(c)
    /\ calls[c].results[l].status = "pending"
    /\ calls' = [calls EXCEPT ![c].results[l] = Fulfilled(v)]
    /\ UNCHANGED <<toolVars, extVars, revision, commands, rootCommandMap, currentAbortController,
                   aborted, notifyCount, lastPublished, lisVars>>

LoaderReject(c, l, r) ==
    /\ Awaiting(c)
    /\ calls[c].results[l].status = "pending"
    /\ calls' = [calls EXCEPT ![c].results[l] = Rejected(r)]
    /\ UNCHANGED <<toolVars, extVars, revision, commands, rootCommandMap, currentAbortController,
                   aborted, notifyCount, lastPublished, lisVars>>

\* a loader's promise settles, and the order of settlement is recorded
Settle(c, l, result) ==
    /\ Awaiting(c)
    /\ calls[c].results[l].status = "pending"
    /\ calls' = [calls EXCEPT ![c].results[l] = result]
    /\ settleOrder' = Append(settleOrder, l)
    /\ UNCHANGED <<utilVars, extVars, revision, commands, rootCommandMap,
                   currentAbortController, aborted, notifyCount, lastPublished, lisVars>>

AbortExternal(sig) ==
    /\ revision # "B"
    /\ sig \notin aborted
    /\ aborted' = aborted \cup {sig}
    /\ UNCHANGED <<toolVars, extVars, revision, commands, rootCommandMap, currentAbortController,
                   calls, notifyCount, lastPublished, lisVars>>

(***************************************************************************)
(* The continuation after await Promise.allSettled(...): the abort check,  *)
(* the merge, the assignment of this.commands and notifyListeners(); in    *)
(* revision B the finally clause; in revision C the construction of the    *)
(* service from the merged commands and their lookup map.                  *)
(***************************************************************************)
\* mutant: the signal is not looked at after the await
CancelledNever(rev, signal, abortedNow) == FALSE

Cancelled(rev, signal, abortedNow) ==
    rev # "C" /\ signal \in abortedNow

\* mutant: the new commands are added to the list published before
SnapshotAppending(rev, results) ==
    LET values == MapValues(Resolve(AllCommands(results)))
    IN  [cmds |-> commands \o values, map |-> SnapshotLookup(commands \o values),
         written |-> {}]

Snapshot(rev, results) ==
    LET values == MapValues(Resolve(AllCommands(results)))
    IN  IF rev = "C"
        THEN buildLookupMap(values)
        ELSE [cmds |-> values, map |-> SnapshotLookup(values), written |-> {}]

\* mutant: the finally clause clears the controller whoever owns it
ClearControllerAlways(rev, current, signal) ==
    IF rev = "B" THEN NoController ELSE current

ClearController(rev, current, signal) ==
    IF rev = "B" /\ current = signal THEN NoController ELSE current

\* notifyListeners(): the listeners are called in insertion order, a throw
\* ends the loop
RECURSIVE NotifyFrom(_, _, _, _)
NotifyFrom(ls, i, counts, abortedNow) ==
    IF i > Len(ls)
    THEN [invoked |-> counts, threw |-> FALSE, aborted |-> abortedNow]
    ELSE LET counted == [counts EXCEPT ![ls[i]] = @ + 1]
             abortedThen == IF ls[i] = "a" THEN abortedNow \cup ExternalSignals
                            ELSE abortedNow
         IN  IF ls[i] \in {"t", "a"}
             THEN [invoked |-> counted, threw |-> TRUE, aborted |-> abortedThen]
             ELSE NotifyFrom(ls, i + 1, counted, abortedThen)

notifyListeners(rev, ls, abortedNow) ==
    IF rev = "C"
    THEN [invoked |-> NoInvocations, threw |-> FALSE, aborted |-> abortedNow]
    ELSE NotifyFrom(ls, 1, NoInvocations, abortedNow)

\* mutant: the error is thrown again whatever the signal says
OutcomeRethrown(rev, threw, signal, abortedNow) ==
    IF threw THEN "rejected" ELSE "resolved"

\* how the call ends: catch (e) { if (signal.aborted) return; throw e; } in
\* revision A, no catch clause in revision B
Outcome(rev, threw, signal, abortedNow) ==
    IF threw /\ ~(rev = "A" /\ signal \in abortedNow) THEN "rejected" ELSE "resolved"

\* the end of the call: the promise reloadCommands returned settles
Completion(c) ==
    /\ Awaiting(c)
    /\ AllSettled(calls[c].results)
    /\ LET call == calls[c]
           cancelled == Cancelled(revision, call.signal, aborted)
           run == notifyListeners(revision, listeners, aborted)
       IN  calls' = [calls EXCEPT ![c] =
               IF cancelled
               THEN [call EXCEPT !.pc = "resolved", !.abortedAtEnd = TRUE,
                                 !.results = [l \in Loaders |-> Consumed]]
               ELSE [call EXCEPT !.pc = Outcome(revision, run.threw, call.signal, run.aborted),
                                 !.published = TRUE,
                                 !.threw = run.threw,
                                 !.abortedAtEnd = call.signal \in run.aborted,
                                 !.results = [l \in Loaders |-> Consumed]]]

Continue(c) ==
    /\ Completion(c)
    /\ LET call == calls[c]
           cancelled == Cancelled(revision, call.signal, aborted)
           run == notifyListeners(revision, listeners, aborted)
           snapshot == Snapshot(revision, call.results)
       IN  /\ IF cancelled
              THEN /\ UNCHANGED <<commands, rootCommandMap, notifyCount, lastPublished,
                                  aborted, invoked, notified>>
              ELSE /\ commands' = snapshot.cmds
                   /\ rootCommandMap' = snapshot.map
                   /\ notifyCount' = IF revision = "C" THEN notifyCount ELSE notifyCount + 1
                   /\ lastPublished' = [call |-> c, results |-> call.results,
                                        written |-> snapshot.written]
                   /\ invoked' = run.invoked
                   /\ notified' = listeners
                   /\ aborted' = run.aborted
           /\ currentAbortController' =
                 ClearController(revision, currentAbortController, call.signal)
    /\ UNCHANGED <<toolVars, extVars, revision, listeners, unsubscribeCalls>>

getCommands == commands

(***************************************************************************)
(* subscribe(listener) and the function it returns.  this.listeners is a   *)
(* Set in revision A and an array in revision B.                           *)
(***************************************************************************)
Registered(ls) == {ls[i] : i \in 1..Len(ls)}

AddListener(rev, ls, f) ==
    IF rev = "A" /\ f \in Registered(ls) THEN ls ELSE Append(ls, f)

RECURSIVE Without(_, _)
Without(ls, f) ==
    IF ls = <<>> THEN <<>>
    ELSE (IF Head(ls) = f THEN <<>> ELSE <<Head(ls)>>) \o Without(Tail(ls), f)

\* mutant: the registration made last is removed, whichever listener it is
RemoveListenerLast(rev, ls, f) ==
    IF ls = <<>> THEN ls ELSE SubSeq(ls, 1, Len(ls) - 1)

\* this.listeners.delete(listener) / this.listeners.filter((l) => l !== listener)
RemoveListener(rev, ls, f) == Without(ls, f)

Subscribe(f) ==
    /\ revision \in {"A", "B"}
    /\ Len(listeners) < MaxListeners
    /\ listeners' = AddListener(revision, listeners, f)
    /\ unsubscribeCalls' = [unsubscribeCalls EXCEPT ![f] = 0]
    /\ UNCHANGED <<toolVars, extVars, revision, commands, rootCommandMap, currentAbortController,
                   aborted, calls, notifyCount, lastPublished, invoked, notified>>

Unsubscribe(f) ==
    /\ revision \in {"A", "B"}
    /\ f \in Registered(listeners) \/ unsubscribeCalls[f] > 0
    /\ unsubscribeCalls[f] < MaxUnsubscribeCalls
    /\ listeners' = RemoveListener(revision, listeners, f)
    /\ unsubscribeCalls' = [unsubscribeCalls EXCEPT ![f] = @ + 1]
    /\ UNCHANGED <<toolVars, extVars, revision, commands, rootCommandMap, currentAbortController,
                   aborted, calls, notifyCount, lastPublished, invoked, notified>>

(***************************************************************************)
(* CommandService.create(loaders, signal): one run of the loaders on a new *)
(* service (revision A: new CommandService + reloadCommands(signal)).      *)
(***************************************************************************)
CreateCall(sig) ==
    /\ revision \in {"A", "C"}
    /\ calls = <<>>
    /\ calls' = <<NewCall(sig, TRUE)>>
    /\ UNCHANGED <<toolVars, extVars, revision, commands, rootCommandMap, currentAbortController,
                   aborted, notifyCount, lastPublished, lisVars>>

CreateLoaderFulfil(l, v) ==
    /\ Awaiting(1)
    /\ calls[1].results[l].status = "pending"
    /\ calls' = [calls EXCEPT ![1].results[l] = Fulfilled(v)]
    /\ UNCHANGED <<toolVars, extVars, revision, commands, rootCommandMap, currentAbortController,
                   aborted, notifyCount, lastPublished, lisVars>>

vars == <<cmdVars, extVars, toolVars>>

Init == InitService({"A", "B"}) /\ InitStore /\ MergeOff /\ ParseOff /\ InjectOff /\ RemoteOff /\ IgnoreOff

Next ==
    \/ ReloadInternal
    \/ \E sig \in ExternalSignals : ReloadExternal(sig)
    \/ \E c \in 1..MaxCalls, l \in Loaders : \E v \in ReloadOutputs(c, l) : LoaderFulfil(c, l, v)
    \/ \E c \in 1..MaxCalls : \E l \in FailingLoaders(c) : LoaderReject(c, l, "Error")
    \/ \E sig \in ExternalSignals : AbortExternal(sig)
    \/ \E c \in 1..MaxCalls : Continue(c)

Spec == Init /\ [][Next]_vars

InitCreate == InitService({"A", "C"}) /\ InitStore /\ MergeOff /\ ParseOff /\ InjectOff /\ RemoteOff /\ IgnoreOff

NextCreate ==
    \/ \E sig \in ExternalSignals : CreateCall(sig)
    \/ \E l \in Loaders, v \in CreateOutputs : CreateLoaderFulfil(l, v)
    \/ \E l \in Loaders, r \in RejectReasons : LoaderReject(1, l, r)
    \/ \E sig \in ExternalSignals : AbortExternal(sig)
    \/ Continue(1)

SpecCreate == InitCreate /\ [][NextCreate]_vars

InitListen == InitService({"A", "B"}) /\ InitStore /\ MergeOff /\ ParseOff /\ InjectOff /\ RemoteOff /\ IgnoreOff

NextListen ==
    \/ \E f \in ListenerIds : Subscribe(f)
    \/ \E f \in ListenerIds : Unsubscribe(f)
    \/ Len(calls) < MaxListenCalls /\ ReloadInternal
    \/ \E sig \in ExternalSignals : Len(calls) < MaxListenCalls /\ ReloadExternal(sig)
    \/ \E c \in 1..MaxListenCalls, l \in Loaders : \E v \in ReloadOutputs(c, l) :
          LoaderFulfil(c, l, v)
    \/ \E c \in 1..MaxListenCalls : LoaderReject(c, 1, "Error")
    \/ \E c \in 1..MaxListenCalls : Continue(c)

SpecListen == InitListen /\ [][NextListen]_vars

(***************************************************************************)
(* Reloads whose loaders settle in any order, with the order recorded.     *)
(***************************************************************************)
InitSettle == InitService({"A", "B"}) /\ InitStore /\ MergeOff /\ ParseOff /\ InjectOff /\ RemoteOff /\ IgnoreOff

NextSettle ==
    \/ Len(calls) < MaxSettleCalls /\ ReloadInternal
    \/ \E sig \in ExternalSignals : Len(calls) < MaxSettleCalls /\ ReloadExternal(sig)
    \/ \E c \in 1..MaxSettleCalls, l \in Loaders : \E v \in ReloadOutputs(c, l) :
          Settle(c, l, Fulfilled(v))
    \/ \E c \in 1..MaxSettleCalls : \E l \in FailingLoaders(c) :
          Settle(c, l, Rejected("Error"))
    \/ \E sig \in ExternalSignals : AbortExternal(sig)
    \/ \E c \in 1..MaxSettleCalls : Continue(c)
    \/ calls = <<>> /\ listeners = <<>> /\ Subscribe("f")

SpecSettle == InitSettle /\ [][NextSettle]_vars

(***************************************************************************)
(* Reloads without a signal whose loaders settle or hang.  The             *)
(* continuation of a call runs once all its promises have settled: the     *)
(* step of Continue(c) that ends the call is taken when it stays enabled.  *)
(***************************************************************************)
InitLive == InitService({"A", "B"}) /\ InitStore /\ MergeOff /\ ParseOff /\ InjectOff /\ RemoteOff /\ IgnoreOff

NextLive ==
    \/ Len(calls) < MaxSettleCalls /\ ReloadInternal
    \/ \E c \in 1..MaxSettleCalls, l \in Loaders : \E v \in ReloadOutputs(c, l) :
          LoaderFulfil(c, l, v)
    \/ \E c \in 1..MaxSettleCalls : \E l \in FailingLoaders(c) : LoaderReject(c, l, "Error")
    \/ \E c \in 1..MaxSettleCalls : Continue(c)

SpecLive ==
    /\ InitLive
    /\ [][NextLive]_vars
    /\ \A c \in 1..MaxSettleCalls : WF_calls(Completion(c))

(***************************************************************************)
(* The operations of the lifecycle manager on X.                           *)
(***************************************************************************)
BeginInstallOrUpdate(v, withPrevious) ==
    /\ Admitted(txn)
    /\ opsStarted < MaxOps
    /\ opsStarted' = opsStarted + 1
    /\ LET error == StartError(extensions.present, withPrevious)
           kind == IF withPrevious THEN "update" ELSE "install"
       IN  IF error # ""
           THEN /\ lastOp' = Completed(kind, "rejected", error, extensions.version, v)
                /\ UNCHANGED <<txn, writers>>
           ELSE /\ txn' = [pc |-> "acquire", version |-> v, isUpdate |-> withPrevious,
                           previousVersion |-> extensions.version]
                /\ writers' = [writers EXCEPT !["X"] = @ + 1]
                /\ UNCHANGED lastOp
    /\ UNCHANGED <<toolVars, cmdVars, storeDir, stagingDir, extensions, otherTxn, refVars>>

Acquire(ok) ==
    /\ txn.pc = "acquire"
    /\ IF ok
       THEN /\ stagingDir' = Staged(storeDir, txn.version).staged
            /\ storeDir' = Staged(storeDir, txn.version).live
            /\ txn' = [txn EXCEPT !.pc = "validate"]
            /\ UNCHANGED <<lastOp, writers>>
       ELSE /\ lastOp' = Completed(IF txn.isUpdate THEN "update" ELSE "install",
                                   "rejected", "AcquisitionError",
                                   txn.previousVersion, txn.version)
            /\ txn' = Idle
            /\ writers' = [writers EXCEPT !["X"] = @ - 1]
            /\ UNCHANGED <<storeDir, stagingDir>>
    /\ UNCHANGED <<toolVars, cmdVars, extensions, opsStarted, otherTxn, refVars>>

Validate(outcome) ==
    /\ txn.pc = "validate"
    /\ IF outcome = "ok"
       THEN /\ txn' = [txn EXCEPT !.pc = "commit"]
            /\ UNCHANGED <<storeDir, stagingDir, lastOp, writers>>
       ELSE /\ storeDir' = RestorePrevious(storeDir, stagingDir)
            /\ stagingDir' = NoDir
            /\ lastOp' = Completed(IF txn.isUpdate THEN "update" ELSE "install",
                                   "rejected", outcome,
                                   txn.previousVersion, txn.version)
            /\ txn' = Idle
            /\ writers' = [writers EXCEPT !["X"] = @ - 1]
    /\ UNCHANGED <<toolVars, cmdVars, extensions, opsStarted, otherTxn, refVars>>

MoveIntoStore ==
    /\ txn.pc = "commit"
    /\ storeDir' = AdoptStaged(storeDir, stagingDir)
    /\ stagingDir' = NoDir
    /\ txn' = [txn EXCEPT !.pc = "record"]
    /\ UNCHANGED <<toolVars, cmdVars, extensions, lastOp, opsStarted, serVars, refVars>>

RecordExtension ==
    /\ txn.pc = "record"
    /\ extensions' = RecordOf(extensions, txn.version, txn.isUpdate)
    /\ lastOp' = Completed(IF txn.isUpdate THEN "update" ELSE "install", "ok", "",
                           txn.previousVersion, txn.version)
    /\ txn' = Idle
    /\ writers' = [writers EXCEPT !["X"] = @ - 1]
    /\ Changed(IF txn.isUpdate THEN "update" ELSE "install")
    /\ UNCHANGED <<toolVars, cmdVars, storeDir, stagingDir, opsStarted, otherTxn>>

Uninstall ==
    /\ Admitted(txn)
    /\ opsStarted < MaxOps
    /\ opsStarted' = opsStarted + 1
    /\ IF extensions.present
       THEN /\ storeDir' = NoDir
            /\ extensions' = NoRecord
            /\ lastOp' = Completed("uninstall", "ok", "", extensions.version, 0)
            /\ Changed("uninstall")
       ELSE /\ lastOp' = Completed("uninstall", "rejected", "NotFoundError", 0, 0)
            /\ UNCHANGED <<storeDir, extensions, refVars>>
    /\ UNCHANGED <<toolVars, cmdVars, stagingDir, txn, serVars>>

SetEnabled(enabled) ==
    /\ txn.pc = "idle"
    /\ opsStarted < MaxOps
    /\ opsStarted' = opsStarted + 1
    /\ IF extensions.present
       THEN /\ extensions' = [extensions EXCEPT !.enabled = enabled]
            /\ lastOp' = Completed("setEnabled", "ok", "", extensions.version,
                                   extensions.version)
            /\ Changed("setEnabled")
       ELSE /\ lastOp' = Completed("setEnabled", "rejected", "NotFoundError", 0, 0)
            /\ UNCHANGED <<extensions, refVars>>
    /\ UNCHANGED <<toolVars, cmdVars, storeDir, stagingDir, txn, serVars>>

\* an install, update or uninstall of the other extension, Y, starts
BeginOther ==
    /\ Admitted(otherTxn)
    /\ opsStarted < MaxOps
    /\ opsStarted' = opsStarted + 1
    /\ otherTxn' = [Idle EXCEPT !.pc = "acquire"]
    /\ writers' = [writers EXCEPT !["Y"] = @ + 1]
    /\ UNCHANGED <<toolVars, cmdVars, storeDir, stagingDir, extensions, txn, lastOp, refVars>>

\* ... and ends, with or without a change
EndOther(ok) ==
    /\ otherTxn.pc # "idle"
    /\ otherTxn' = Idle
    /\ writers' = [writers EXCEPT !["Y"] = @ - 1]
    /\ IF ok THEN Changed("install") ELSE UNCHANGED refVars
    /\ UNCHANGED <<toolVars, cmdVars, storeDir, stagingDir, extensions, txn, lastOp, opsStarted>>

\* CommandRefresher.subscribe(callback): this.listeners.add(callback)
SubscribeRefresher(callback) ==
    /\ refresherListeners' = AddCallback(refresherListeners, callback)
    /\ UNCHANGED <<toolVars, cmdVars, storeDir, stagingDir, extensions, txn, lastOp, opsStarted,
                   serVars, refreshCalls, lastTriggered, triggered>>

\* the function subscribe returned: this.listeners.delete(callback)
UnsubscribeRefresher(callback) ==
    /\ refresherListeners' = DeleteCallback(refresherListeners, callback)
    /\ UNCHANGED <<toolVars, cmdVars, storeDir, stagingDir, extensions, txn, lastOp, opsStarted,
                   serVars, refreshCalls, lastTriggered, triggered>>

\* the history of the subscriptions, kept where it is looked at
RecordSubscribe(callback) ==
    /\ everSubscribed' = everSubscribed \cup {callback}
    /\ unsubscribed' = unsubscribed \ {callback}
    /\ UNCHANGED everUnsubscribed

RecordUnsubscribe(callback) ==
    /\ unsubscribed' = unsubscribed \cup {callback}
    /\ everUnsubscribed' = everUnsubscribed \cup {callback}
    /\ UNCHANGED everSubscribed

\* a call of refreshCommands() by any holder of the refresher
Refresh ==
    /\ refreshCommands
    /\ UNCHANGED <<toolVars, cmdVars, storeDir, stagingDir, extensions, txn, lastOp, opsStarted,
                   serVars>>

ValidationOutcomes == {"ok", "ValidationError", "TrustDenied"}

InitExt == InitService({"A"}) /\ InitStore /\ MergeOff /\ ParseOff /\ InjectOff /\ RemoteOff /\ IgnoreOff

NextExt ==
    \/ \E v \in Versions, withPrevious \in BOOLEAN : BeginInstallOrUpdate(v, withPrevious)
    \/ \E ok \in BOOLEAN : Acquire(ok)
    \/ \E outcome \in ValidationOutcomes : Validate(outcome)
    \/ MoveIntoStore
    \/ RecordExtension
    \/ Uninstall
    \/ \E enabled \in BOOLEAN : SetEnabled(enabled)
    \/ BeginOther
    \/ \E ok \in BOOLEAN : EndOther(ok)
    \/ \E callback \in RefresherCallbacks : SubscribeRefresher(callback) /\ UNCHANGED subVars
    \/ \E callback \in RefresherCallbacks : UnsubscribeRefresher(callback) /\ UNCHANGED subVars

SpecExt == InitExt /\ [][NextExt]_vars

(***************************************************************************)
(* The CommandRefresher on its own.                                        *)
(***************************************************************************)
InitRefresh == InitService({"A"}) /\ InitStore /\ MergeOff /\ ParseOff /\ InjectOff /\ RemoteOff /\ IgnoreOff

NextRefresh ==
    \/ \E callback \in RefresherCallbacks :
          SubscribeRefresher(callback) /\ RecordSubscribe(callback)
    \/ \E callback \in everSubscribed :
          UnsubscribeRefresher(callback) /\ RecordUnsubscribe(callback)
    \/ refreshCalls < MaxRefreshCalls /\ Refresh

SpecRefresh == InitRefresh /\ [][NextRefresh]_vars

(***************************************************************************)
(* The merge of objects on its own, and the resolution of queries on its   *)
(* own.                                                                    *)
(***************************************************************************)
InitMerge == InitService({"A"}) /\ InitStore /\ InitArguments /\ ParseOff /\ InjectOff /\ RemoteOff /\ IgnoreOff

NextMerge ==
    \/ AddProperty /\ UNCHANGED <<cmdVars, extVars, parseVars, settleOrder, injectVars, remoteVars, ignoreVars>>
    \/ Merge /\ UNCHANGED <<cmdVars, extVars, parseVars, settleOrder, injectVars, remoteVars, ignoreVars>>

SpecMerge == InitMerge /\ [][NextMerge]_vars

InitParse == InitService({"A"}) /\ InitStore /\ MergeOff /\ InitQuery /\ InjectOff /\ RemoteOff /\ IgnoreOff

NextParse == Parse /\ UNCHANGED <<cmdVars, extVars, mergeVars, settleOrder, injectVars, remoteVars, ignoreVars>>

SpecParse == InitParse /\ [][NextParse]_vars

InitInject == InitService({"A"}) /\ InitStore /\ MergeOff /\ ParseOff /\ InitArgs /\ RemoteOff /\ IgnoreOff

NextInject ==
    \/ AddArg /\ UNCHANGED <<cmdVars, extVars, mergeVars, parseVars, settleOrder, remoteVars, ignoreVars>>
    \/ Inject /\ UNCHANGED <<cmdVars, extVars, mergeVars, parseVars, settleOrder, remoteVars, ignoreVars>>

SpecInject == InitInject /\ [][NextInject]_vars

InitRemote == InitService({"A"}) /\ InitStore /\ MergeOff /\ ParseOff /\ InjectOff /\ RemoteOff /\ IgnoreOff

otherThanRemote == <<cmdVars, extVars, mergeVars, parseVars, settleOrder, injectVars, ignoreVars>>

NextRemote ==
    \/ \E k \in Invocations, client \in BOOLEAN : Execute(k, client) /\ UNCHANGED otherThanRemote
    \/ \E k \in Invocations : LoadAgentFulfils(k) /\ UNCHANGED otherThanRemote
    \/ \E k \in Invocations, error \in Failures :
          LoadAgentRejects(k, error) /\ UNCHANGED otherThanRemote
    \/ \E k \in Invocations, response \in Responses :
          SendMessageFulfils(k, response) /\ UNCHANGED otherThanRemote
    \/ \E k \in Invocations, error \in Failures :
          SendMessageRejects(k, error) /\ UNCHANGED otherThanRemote

SpecRemote == InitRemote /\ [][NextRemote]_vars

InitIgnore ==
    InitService({"A"}) /\ InitStore /\ MergeOff /\ ParseOff /\ InjectOff /\ RemoteOff /\ InitParser

otherThanIgnore == <<cmdVars, extVars, mergeVars, parseVars, settleOrder, injectVars, remoteVars>>

NextIgnore ==
    \/ \E dir \in Dirs, content \in Contents :
          WriteGitignore(dir, content) /\ UNCHANGED otherThanIgnore
    \/ \E path \in FilePaths : isIgnored(path) /\ UNCHANGED otherThanIgnore

SpecIgnore == InitIgnore /\ [][NextIgnore]_vars

(***************************************************************************)
(* Properties of the extension update transaction.                         *)
(***************************************************************************)

\* C1: an update of X (previousConfig supplied) whose newly acquired content
\* fails validation rejects, and afterwards X is still installed: the store
\* directory holds the old payload and none of the new one, and the
\* in-memory record reports the old version.
UpdateFailureRollback ==
    (txn.pc = "idle" /\ lastOp.kind = "update" /\ lastOp.error = "ValidationError")
    => /\ lastOp.outcome = "rejected"
       /\ storeDir.exists
       /\ storeDir.version = lastOp.previousVersion
       /\ storeDir.payload = {lastOp.previousVersion}
       /\ lastOp.attempted \notin storeDir.payload \/ lastOp.attempted = lastOp.previousVersion
       /\ extensions.present
       /\ extensions.version = lastOp.previousVersion

\* X at version 1, an update to version 2 failed validation
UpdateFailureRollbackWitness ==
    /\ txn.pc = "idle"
    /\ lastOp = Completed("update", "rejected", "ValidationError", 1, 2)
    /\ storeDir = Dir(1)
    /\ extensions.version = 1

\* C2: after every install/update operation has completed (with success or
\* with an error) the directory and the record agree on the version, which
\* is the old or the new one; a directory mixing payloads, or a record
\* without its directory, is never observable.
DiskAndRecordAgree ==
    /\ storeDir.exists => storeDir.payload = {storeDir.version}
    /\ extensions.present => storeDir.exists
    /\ txn.pc = "idle" =>
          /\ extensions.present <=> storeDir.exists
          /\ storeDir.version = extensions.version
          /\ lastOp.kind \in {"install", "update"} =>
                extensions.version \in {lastOp.previousVersion, lastOp.attempted}

\* an update from version 1 to version 2 was committed
DiskAndRecordAgreeWitness ==
    /\ txn.pc = "idle"
    /\ lastOp = Completed("update", "ok", "", 1, 2)
    /\ storeDir = Dir(2)
    /\ extensions.version = 2

(***************************************************************************)
(* Properties of the command service.  The loaders' outputs of the call    *)
(* that published last, in loader order, stated without the code's loop.   *)
(***************************************************************************)
RECURSIVE Loaded(_, _)
Loaded(results, n) ==
    IF n = 0 THEN <<>>
    ELSE Loaded(results, n - 1)
         \o (IF results[n].status = "fulfilled" THEN results[n].value ELSE <<>>)

PublishedInput == Loaded(lastPublished.results, NumLoaders)

HasPublished == lastPublished.call # 0

Names(cmds) == {cmds[i].name : i \in 1..Len(cmds)}

SameCommand(a, b) ==
    /\ a.id = b.id
    /\ a.extensionName = b.extensionName
    /\ a.altNames = b.altNames

\* the candidates extensionName.name, extensionName.name1, extensionName.name2, ...
Candidate(cmd, k) ==
    IF k = 0 THEN cmd.extensionName \o "." \o cmd.name
    ELSE cmd.extensionName \o "." \o cmd.name \o ToString(k)

FirstUnused(keys, cmd) ==
    Candidate(cmd, CHOOSE k \in 0..Cardinality(keys) :
                      /\ Candidate(cmd, k) \notin keys
                      /\ \A j \in 0..(k - 1) : Candidate(cmd, j) \in keys)

\* no later non-extension command takes the key
NotOverwrittenAfter(all, i, key) ==
    \A j \in (i + 1)..Len(all) : all[j].extensionName = "" => all[j].name # key

Supersession ==
    /\ \A c \in 1..Len(calls) :
          calls[c].superseded => (~calls[c].published /\ lastPublished.call # c)
    /\ notifyCount = Cardinality({c \in 1..Len(calls) : calls[c].published})
    /\ (/\ Len(calls) > 0
        /\ \A c \in 1..Len(calls) : ~calls[c].external /\ calls[c].pc = "resolved")
       => /\ lastPublished.call = Len(calls)
          /\ calls[Len(calls)].published
          /\ commands = MapValues(Resolve(PublishedInput))

\* three calls without a signal, the first two superseded, all completed
SupersessionWitness ==
    /\ Len(calls) = 3
    /\ \A c \in 1..3 : ~calls[c].external /\ calls[c].pc = "resolved"
    /\ calls[1].superseded /\ calls[2].superseded
    /\ lastPublished.call = 3

LoaderFailureIsolation ==
    /\ \A c \in 1..Len(calls) :
          /\ calls[c].pc \in {"awaiting", "resolved"}
          /\ calls[c].pc = "awaiting" =>
                \A l \in Loaders : calls[c].results[l].status \in {"pending", "fulfilled", "rejected"}
          /\ (calls[c].pc = "resolved" /\ ~calls[c].published) => calls[c].signal \in aborted
    /\ HasPublished =>
          /\ \A l \in Loaders : lastPublished.results[l].status \in {"fulfilled", "rejected"}
          /\ commands = MapValues(Resolve(PublishedInput))
          /\ (\A l \in Loaders : lastPublished.results[l].status = "rejected") => commands = <<>>
          /\ \A l \in Loaders : lastPublished.results[l].status = "fulfilled" =>
                \A j \in 1..Len(lastPublished.results[l].value) :
                    \E p \in 1..Len(commands) :
                        commands[p].id = lastPublished.results[l].value[j].id

\* the first loader failed, the second one's commands were published
LoaderFailureIsolationWitness ==
    /\ HasPublished
    /\ lastPublished.results[1].status = "rejected"
    /\ lastPublished.results[2].status = "fulfilled"
    /\ Len(commands) > 0

\* C7: in every published snapshot no two top-level commands have the same
\* name.
UniqueNames ==
    \A i, j \in 1..Len(commands) : commands[i].name = commands[j].name => i = j

\* three commands named help were loaded, two of them by one loader
UniqueNamesWitness ==
    /\ HasPublished
    /\ Cardinality({i \in 1..Len(PublishedInput) : PublishedInput[i].name = "help"}) >= 3
    /\ Len(lastPublished.results[1].value) = 2
    /\ Names(lastPublished.results[1].value) = {"help"}
    /\ Len(commands) >= 2

\* C8: in every published snapshot no alias of a top-level command equals
\* the name or an alias of a different top-level command.
UniqueAliases ==
    \A i, j \in 1..Len(commands) :
        i # j => \A a \in 1..Len(commands[i].altNames) :
                    /\ commands[i].altNames[a] # commands[j].name
                    /\ \A b \in 1..Len(commands[j].altNames) :
                          commands[i].altNames[a] # commands[j].altNames[b]

\* C9: every non-extension command of a published snapshot carries the name
\* its loader gave it, and when a non-extension command and an extension
\* command were loaded with the same name, in either order, the snapshot's
\* entry under that name is the non-extension command.
NonExtensionPriority ==
    HasPublished =>
        /\ \A p \in 1..Len(commands) :
              commands[p].extensionName = "" =>
                  \E i \in 1..Len(PublishedInput) :
                      /\ PublishedInput[i].name = commands[p].name
                      /\ SameCommand(PublishedInput[i], commands[p])
        /\ \A i, j \in 1..Len(PublishedInput) :
              (/\ PublishedInput[i].extensionName = ""
               /\ PublishedInput[j].extensionName # ""
               /\ PublishedInput[i].name = PublishedInput[j].name)
              => \E p \in 1..Len(commands) :
                    /\ commands[p].name = PublishedInput[i].name
                    /\ commands[p].extensionName = ""

\* the extension's help was loaded before the built-in help
NonExtensionPriorityWitness ==
    /\ HasPublished
    /\ Len(PublishedInput) >= 2
    /\ PublishedInput[1] = ExtHelp
    /\ PublishedInput[2] = BuiltinHelp
    /\ \E p \in 1..Len(commands) : commands[p].id = "builtin-help" /\ commands[p].name = "help"

\* C10: a reloadCommands call with a caller-supplied signal aborts nothing
\* and leaves currentAbortController as it is; it runs on the supplied
\* signal, and publishes if and only if that signal is not aborted when its
\* continuation runs after the loaders have settled.
ExternalSignalBypass ==
    [][/\ (Len(calls') = Len(calls) + 1 /\ calls'[Len(calls')].external) =>
             /\ aborted' = aborted
             /\ currentAbortController' = currentAbortController
             /\ calls'[Len(calls')].signal \in ExternalSignals
             /\ \A c \in 1..Len(calls) : calls'[c] = calls[c]
       /\ \A c \in 1..Len(calls) :
             (calls[c].external /\ calls[c].pc = "awaiting" /\ calls'[c].pc # "awaiting") =>
                 /\ calls'[c].published <=> (calls[c].signal \notin aborted)
                 /\ calls'[c].published => lastPublished'.call = c
                 /\ currentAbortController' = currentAbortController
      ]_vars

\* a call with an external signal published while an internal reload that
\* started before it is still in flight and not aborted
ExternalSignalBypassWitness ==
    \E c1, c2 \in 1..Len(calls) :
        /\ c1 < c2
        /\ ~calls[c1].external /\ calls[c1].pc = "awaiting"
        /\ calls[c1].signal \notin aborted
        /\ currentAbortController = calls[c1].signal
        /\ calls[c2].external /\ calls[c2].published

\* C11: whatever reloads are in flight, getCommands() returns the initial
\* empty list or the complete result of the collision resolution over the
\* loader outputs of one reload, the one that published last; a call that is
\* still awaiting its loaders has contributed nothing to it.
AtomicPublish ==
    /\ ~HasPublished => getCommands = <<>>
    /\ HasPublished =>
          /\ getCommands = MapValues(Resolve(PublishedInput))
          /\ lastPublished.call \in 1..Len(calls)
          /\ calls[lastPublished.call].pc # "awaiting"
          /\ \A l \in Loaders : lastPublished.results[l].status \in {"fulfilled", "rejected"}

\* the second reload replaced the snapshot of the first, a third one has one
\* loader's commands and waits for the other
AtomicPublishWitness ==
    /\ Len(calls) = 3
    /\ calls[1].published
    /\ lastPublished.call = 2
    /\ Awaiting(3)
    /\ calls[3].results[1].status = "fulfilled"
    /\ calls[3].results[2].status = "pending"
    /\ Names(getCommands) = {"help", "memory", "e.help"}

\* C12: after a reload has published a snapshot, every listener that was
\* subscribed at that moment has been invoked exactly once for it, also when
\* a listener function was registered more than once and when listeners
\* throw.
ListenersInvokedOnce ==
    \A f \in Registered(notified) : invoked[f] = 1

\* the listeners of ls other than f, in their order
Others(ls, f) == SelectSeq(ls, LAMBDA g : g # f)

\* C13: a call of the unsubscribe function of listener f leaves f without
\* registration and every other registration as it was; a further call
\* changes nothing; and a publish made while f is unsubscribed does not
\* invoke f.
UnsubscribeStops ==
    [][\A f \in ListenerIds :
          /\ unsubscribeCalls'[f] > unsubscribeCalls[f] =>
                /\ f \notin Registered(listeners')
                /\ listeners' = Others(listeners, f)
                /\ unsubscribeCalls[f] > 0 => listeners' = listeners
          /\ (unsubscribeCalls[f] > 0 /\ unsubscribeCalls'[f] > 0
              /\ notifyCount' > notifyCount) => invoked'[f] = 0
      ]_vars

\* t was unsubscribed twice; the publish invoked f, which is still subscribed
UnsubscribeStopsWitness ==
    /\ unsubscribeCalls["t"] = 2
    /\ listeners = <<"f">>
    /\ notified = <<"f">>
    /\ invoked["f"] = 1
    /\ invoked["t"] = 0
    /\ HasPublished

\* C14: reloadCommands(externalSignal?) of revision A rejects only when an
\* error was raised in its merge/publish step and its signal was not aborted
\* then; a call whose signal is aborted, and a call in which only loaders
\* failed, resolve.
RejectsOnlyOnPublishError ==
    revision = "A" =>
        \A c \in 1..Len(calls) :
            /\ calls[c].pc \in {"awaiting", "resolved", "rejected"}
            /\ calls[c].pc = "rejected" => (calls[c].threw /\ ~calls[c].abortedAtEnd)
            /\ (calls[c].pc # "awaiting" /\ calls[c].abortedAtEnd) => calls[c].pc = "resolved"
            /\ (calls[c].pc # "awaiting" /\ ~calls[c].threw) => calls[c].pc = "resolved"

\* a listener aborted the caller's signal and threw: the call resolved
RejectsOnlyOnPublishErrorWitness ==
    /\ revision = "A"
    /\ \E c \in 1..Len(calls) :
          /\ calls[c].external
          /\ calls[c].published
          /\ calls[c].threw
          /\ calls[c].abortedAtEnd
          /\ calls[c].pc = "resolved"

RECURSIVE Owned(_, _)
Owned(map, cmds) ==
    \A i \in 1..Len(cmds) :
        /\ MapHas(map, cmds[i].name) /\ MapGet(map, cmds[i].name) = cmds[i]
        /\ \A a \in 1..Len(cmds[i].altNames) :
              MapHas(map, cmds[i].altNames[a]) /\ MapGet(map, cmds[i].altNames[a]) = cmds[i]
        /\ cmds[i].hasMap => Owned(cmds[i].commandMap, cmds[i].subCommands)

\* C15: in the root lookup map built by create (revision C) the name and
\* every alias of every top-level command map to that command, and likewise
\* in the commandMap of a command for its children.
LookupOwnership ==
    (revision = "C" /\ HasPublished) => Owned(rootCommandMap, commands)

KeysOf(cmds) ==
    Names(cmds) \cup UNION {{cmds[i].altNames[a] : a \in 1..Len(cmds[i].altNames)} :
                             i \in 1..Len(cmds)}

RECURSIVE WellMapped(_)
WellMapped(cmd) ==
    IF cmd.hasSub
    THEN /\ cmd.hasMap
         /\ MapKeys(cmd.commandMap) = KeysOf(cmd.subCommands)
         /\ \A j \in 1..Len(cmd.subCommands) : WellMapped(cmd.subCommands[j])
    ELSE ~cmd.hasMap

\* C16: after create (revision C) every command of the snapshot tree that
\* has subCommands carries a commandMap whose keys are exactly the names and
\* aliases of its direct children, at every depth, and a command without
\* subCommands carries none.
NestedLookupBuilt ==
    (revision = "C" /\ HasPublished) =>
        \A i \in 1..Len(commands) : WellMapped(commands[i])

\* memory was published: its child add has a commandMap of its own
NestedLookupBuiltWitness ==
    /\ revision = "C"
    /\ HasPublished
    /\ \E p \in 1..Len(commands) :
          /\ commands[p].id = "memory"
          /\ MapKeys(commands[p].commandMap) = {"add", "clear", "c"}
          /\ commands[p].subCommands[1].hasMap
          /\ MapKeys(commands[p].subCommands[1].commandMap) = {"file", "f"}

RECURSIVE BuiltOnCopies(_)
BuiltOnCopies(cmd) ==
    /\ cmd.fresh
    /\ cmd.hasMap => \A j \in 1..Len(cmd.subCommands) : BuiltOnCopies(cmd.subCommands[j])

\* C17: building a snapshot assigns no property of an object returned by a
\* loader, at any depth: every command of the snapshot, and every command
\* that was given a commandMap or new subCommands, is a copy made by the
\* service.
NoMutation ==
    HasPublished =>
        /\ lastPublished.written = {}
        /\ \A p \in 1..Len(commands) : BuiltOnCopies(commands[p])

\* create attached maps at two depths of memory, a loader's object
NoMutationWitness ==
    /\ revision = "C"
    /\ HasPublished
    /\ lastPublished.written = {}
    /\ \E i \in 1..Len(PublishedInput) : PublishedInput[i] = Memory
    /\ \E p \in 1..Len(commands) :
          /\ commands[p].id = "memory"
          /\ commands[p].hasMap
          /\ commands[p].subCommands[1].hasMap
          /\ commands[p].subCommands[1].subCommands[1].fresh

RangeOf(q) == {q[i] : i \in 1..Len(q)}

SameSignalToEveryLoader ==
    \A c \in 1..Len(calls) :
        /\ \A l \in Loaders : calls[c].loaderCalls[l] = <<calls[c].signal>>
        /\ calls[c].external => calls[c].signal \in ExternalSignals
        /\ ~calls[c].external => calls[c].signal.kind = "internal"

\* C18 (as claimed): in one reload every loader is invoked exactly once, all
\* with the same signal (the caller's one if given, otherwise the internal
\* controller's), and that signal is handed to no loader of a later reload.
SignalOfOneReloadOnly ==
    /\ SameSignalToEveryLoader
    /\ \A c, d \in 1..Len(calls) :
          c < d => \A l \in Loaders : calls[c].signal \notin RangeOf(calls[d].loaderCalls[l])

\* C18 (amended): ... and that signal is handed to no loader of a later
\* reload, unless the caller supplied the same signal to both reloads.
SignalPropagation ==
    /\ SameSignalToEveryLoader
    /\ \A c, d \in 1..Len(calls) :
          (c < d /\ \E l \in Loaders : calls[c].signal \in RangeOf(calls[d].loaderCalls[l]))
          => (calls[c].external /\ calls[d].external)

\* an aborted internal reload, a later internal reload whose loaders see no
\* abort, and a reload on the caller's signal
SignalPropagationWitness ==
    /\ Len(calls) = 3
    /\ ~calls[1].external /\ calls[1].signal \in aborted
    /\ ~calls[2].external /\ calls[2].signal \notin aborted
    /\ calls[3].external
    /\ \A l \in Loaders : calls[3].loaderCalls[l] = <<calls[3].signal>>

\* C19: when two or more non-extension commands were loaded with the same
\* name, the snapshot holds exactly one command of that name, and it is the
\* one loaded last in loader order.
LastNonExtensionWins ==
    HasPublished =>
        \A i, j \in 1..Len(PublishedInput) :
            (/\ i < j
             /\ PublishedInput[i].extensionName = ""
             /\ PublishedInput[j].extensionName = ""
             /\ PublishedInput[i].name = PublishedInput[j].name
             /\ \A k \in (j + 1)..Len(PublishedInput) :
                   ~(PublishedInput[k].extensionName = ""
                     /\ PublishedInput[k].name = PublishedInput[j].name))
            => /\ Cardinality({p \in 1..Len(commands) :
                                  commands[p].name = PublishedInput[j].name}) = 1
               /\ \A p \in 1..Len(commands) :
                     commands[p].name = PublishedInput[j].name
                     => SameCommand(commands[p], PublishedInput[j])

\* the first loader returned the file help and then the built-in help, the
\* second loader the file help: the file help is published
LastNonExtensionWinsWitness ==
    /\ HasPublished
    /\ lastPublished.results[1] = Fulfilled(<<FileHelp, BuiltinHelp>>)
    /\ lastPublished.results[2] = Fulfilled(<<FileHelp>>)
    /\ Len(commands) = 1
    /\ commands[1].id = "file-help"

SingleWriterPerName == \A n \in ExtensionNames : writers[n] <= 1

SingleWriterPerNameWitness ==
    /\ txn.pc = "validate"
    /\ otherTxn.pc # "idle"
    /\ writers["X"] = 1
    /\ writers["Y"] = 1
    /\ opsStarted >= 3

\* a step in which an install, update, uninstall, enable or disable of X
\* completes with success
Completes ==
    \/ txn.pc = "record" /\ txn'.pc = "idle"
    \/ /\ opsStarted' # opsStarted
       /\ txn' = txn
       /\ otherTxn' = otherTxn
       /\ lastOp'.kind \in {"uninstall", "setEnabled"}
       /\ lastOp'.outcome = "ok"

View(result) ==
    [found |-> result.found, commandToExecute |-> result.commandToExecute,
     canonicalPath |-> result.canonicalPath, args |-> result.args]

\* C23: typing an alias of a command in place of its name, at top level or
\* below, resolves to the same command, the same canonical path and the
\* same argument string.
AliasEquivalence ==
    parsed.done => \A r \in parsed.aliased : View(r) = View(parsed.result)

\* the position of the prefix, of the last piece, of the k-th token after
\* the prefix, and that token
PrefixAt == SkipSpaces(query, 1)

LastAt == TrimEnd(query, Len(query))

Prefixed == PrefixAt <= LastAt /\ query[PrefixAt] = "/"

RECURSIVE TokenStart(_)
TokenStart(k) ==
    IF k = 1 THEN SkipSpaces(query, PrefixAt + 1)
    ELSE SkipSpaces(query, TokenEnd(query, TokenStart(k - 1)))

Token(k) == Text(query, TokenStart(k), TokenEnd(query, TokenStart(k)))

\* the first k tokens name a chain of commands, each in the nested lookup
\* of the one before, and the last of that chain
RECURSIVE Resolvable(_)
RECURSIVE CommandAt(_)
Resolvable(k) ==
    /\ TokenStart(k) <= LastAt
    /\ IF k = 1 THEN MapHas(tree, Token(1))
       ELSE /\ Resolvable(k - 1)
            /\ CommandAt(k - 1).hasMap
            /\ MapHas(CommandAt(k - 1).commandMap, Token(k))

CommandAt(k) ==
    IF k = 1 THEN MapGet(tree, Token(1))
    ELSE MapGet(CommandAt(k - 1).commandMap, Token(k))

\* C24: when the first token resolves, the resolution consumes tokens as
\* long as the next one is a name or alias in the nested lookup of the
\* command resolved so far, and no further; the result is the last command
\* of that chain, the names of the chain as canonical path, and the raw
\* text from the first unconsumed token to the end of the trimmed input.
PartialResolution ==
    (parsed.done /\ Prefixed /\ Resolvable(1)) =>
        LET n == Len(parsed.result.canonicalPath)
        IN  /\ n >= 1
            /\ Resolvable(n)
            /\ ~Resolvable(n + 1)
            /\ parsed.result.found
            /\ parsed.result.commandToExecute = CommandAt(n).id
            /\ \A k \in 1..n : parsed.result.canonicalPath[k] = CommandAt(k).name
            /\ parsed.result.args = Text(query, TokenStart(n + 1), LastAt + 1)

PartialResolutionWitness ==
    /\ parsed.done
    /\ parsed.result.canonicalPath = <<"memory">>
    /\ parsed.result.args = "x clear"

\* C25: when the first token after the prefix is no name and no alias of the
\* top-level lookup, no command is resolved, the canonical path is empty and
\* the argument string is that token followed by the rest of the input.
UnknownCommand ==
    (parsed.done /\ Prefixed /\ TokenStart(1) <= LastAt /\ ~MapHas(tree, Token(1))) =>
        /\ ~parsed.result.found
        /\ parsed.result.canonicalPath = <<>>
        /\ parsed.result.args = Text(query, TokenStart(1), LastAt + 1)

UnknownCommandWitness ==
    /\ parsed.done
    /\ Prefixed
    /\ ~parsed.result.found
    /\ parsed.result.args = "x  memory"

\* C26: an input that is empty or white space, that does not begin with the
\* prefix, or that is the prefix alone resolves to no command, an empty
\* canonical path and an empty argument string.
EmptyInput ==
    (parsed.done /\ (~Prefixed \/ TokenStart(1) > LastAt)) =>
        View(parsed.result) = View(NoCommand)

EmptyInputWitness ==
    /\ parsed.done
    /\ PrefixAt <= LastAt
    /\ query[PrefixAt] = "memory"
    /\ LastAt > PrefixAt

(***************************************************************************)
(* deepMerge                                                               *)
(***************************************************************************)
\* the merge as the documentation describes it, on values without marks
RECURSIVE RefMerge(_, _)
RefMerge(a, b) ==
    LET ka == IF a.t = "object" THEN DOMAIN a.v ELSE {}
        kb == IF b.t = "object" THEN DOMAIN b.v ELSE {}
    IN  [t |-> "object",
         v |-> [k \in ka \cup kb |->
                   IF k \in ka /\ k \in kb
                   THEN IF a.v[k].t = "object" /\ b.v[k].t = "object"
                        THEN RefMerge(a.v[k], b.v[k])
                        ELSE b.v[k]
                   ELSE IF k \in ka THEN a.v[k] ELSE b.v[k]]]

\* C27: deepMerge(target, source) is the reference merge: its keys are the
\* keys of target and of source; a key of one of them carries its value
\* there; a key of both carries the merge of the two values when both are
\* objects (not arrays, not null) and the value of source otherwise.
MergeMatchesReference ==
    merged.done =>
        Plain(merged.result) =
            RefMerge(Plain(merged.targetBefore), Plain(merged.sourceBefore))

MergeMatchesReferenceWitness ==
    /\ merged.done
    /\ target.t = "object" /\ source.t = "object"
    /\ \E k \in DOMAIN target.v \cap DOMAIN source.v :
          /\ target.v[k].t = "object" /\ source.v[k].t = "object"
          /\ DOMAIN target.v[k].v \ DOMAIN source.v[k].v # {}
          /\ DOMAIN source.v[k].v \ DOMAIN target.v[k].v # {}

\* C28: for an object A, deepMerge(A, {}), deepMerge(A, undefined),
\* deepMerge({}, A), deepMerge(undefined, A) and deepMerge(A, A) are all
\* structurally equal to A.
IdentityLaws ==
    (merged.done /\ merged.targetBefore.t = "object") =>
        /\ Plain(merged.withEmpty) = Plain(merged.targetBefore)
        /\ Plain(merged.withUndefined) = Plain(merged.targetBefore)
        /\ Plain(merged.ontoEmpty) = Plain(merged.targetBefore)
        /\ Plain(merged.ontoUndefined) = Plain(merged.targetBefore)
        /\ Plain(merged.withSelf) = Plain(merged.targetBefore)

IdentityLawsWitness ==
    /\ merged.done
    /\ merged.targetBefore.t = "object"
    /\ \E k, l \in DOMAIN merged.targetBefore.v :
          /\ merged.targetBefore.v[k].t = "object"
          /\ DOMAIN merged.targetBefore.v[k].v # {}
          /\ merged.targetBefore.v[l].t \in {"null", "array"}

\* C29: deepMerge returns for all arguments, undefined ones included; the
\* objects passed as target and source, nested objects included, are after
\* the call what they were before it; the object returned is a new object,
\* neither target nor source.
PureAndTotal ==
    merged.done =>
        /\ merged.result.t = "object"
        /\ merged.result.fresh
        /\ target = merged.targetBefore
        /\ source = merged.sourceBefore

PureAndTotalWitness ==
    /\ merged.done
    /\ target.t = "object" /\ source.t = "object"
    /\ \E k \in DOMAIN target.v \cap DOMAIN source.v :
          /\ target.v[k].t = "object" /\ source.v[k].t = "object"
          /\ Size(target.v[k]) > 0 /\ Size(source.v[k]) > 0

\* every key that all three objects have holds objects in all three, which
\* are uniform in turn, or holds something else in all three
RECURSIVE Uniform(_, _, _)
Uniform(a, b, c) ==
    LET ka == IF a.t = "object" THEN DOMAIN a.v ELSE {}
        kb == IF b.t = "object" THEN DOMAIN b.v ELSE {}
        kc == IF c.t = "object" THEN DOMAIN c.v ELSE {}
    IN  \A k \in ka \cap kb \cap kc :
           \/ /\ a.v[k].t = "object" /\ b.v[k].t = "object" /\ c.v[k].t = "object"
              /\ Uniform(a.v[k], b.v[k], c.v[k])
           \/ a.v[k].t # "object" /\ b.v[k].t # "object" /\ c.v[k].t # "object"

\* C30: deepMerge(deepMerge(A, B), C) and deepMerge(A, deepMerge(B, C)) are
\* equal whenever every key the three objects share holds objects in all
\* three or holds non-objects in all three; they differ for some A, B, C in
\* which a key holds an object, then an array, then an object.
AssociativeWhenUniform ==
    (merged.done /\ Uniform(merged.targetBefore, merged.sourceBefore, third)) =>
        Plain(merged.left) = Plain(merged.right)

AssociativeWhenUniformWitness ==
    /\ merged.done
    /\ Plain(merged.left) # Plain(merged.right)
    /\ \E k \in Keys :
          /\ merged.targetBefore.t = "object" /\ HasKey(merged.targetBefore, k)
          /\ merged.sourceBefore.t = "object" /\ HasKey(merged.sourceBefore, k)
          /\ third.t = "object" /\ HasKey(third, k)
          /\ merged.targetBefore.v[k].t = "object"
          /\ merged.sourceBefore.v[k].t = "array"
          /\ third.v[k].t = "object"


(***************************************************************************)
(* Reloads and the settling of their loaders                               *)
(***************************************************************************)
\* C34: a reload whose signal is aborted when its continuation runs, after
\* all its loaders have settled, leaves the command list and the lookup as
\* they are and calls no listener.
AbortedReloadIsSilent ==
    [][\A c \in 1..Len(calls) :
          (/\ calls[c].pc = "awaiting"
           /\ calls'[c].pc # "awaiting"
           /\ calls[c].signal \in aborted) =>
              /\ commands' = commands
              /\ rootCommandMap' = rootCommandMap
              /\ notifyCount' = notifyCount
              /\ invoked' = invoked]_vars

AbortedReloadIsSilentWitness ==
    /\ Len(calls) = 2
    /\ calls[1].published
    /\ calls[2].external
    /\ calls[2].pc = "resolved"
    /\ calls[2].abortedAtEnd
    /\ ~calls[2].published
    /\ Len(commands) > 0
    /\ listeners # <<>>

\* what the loaders give the c-th call, in loader order, when the loaders
\* in F fulfil and the others fail
RECURSIVE OutputsFrom(_, _, _)
OutputsFrom(c, F, l) ==
    IF l > NumLoaders THEN <<>>
    ELSE (IF l \in F THEN CHOOSE v \in ReloadOutputs(c, l) : TRUE ELSE <<>>)
         \o OutputsFrom(c, F, l + 1)

\* C35: the published command list, with its names and its order, is
\* determined by what the loaders returned and by the order of the loaders
\* in the loaders array, whatever the order in which their promises settled.
SettleOrderIrrelevant ==
    HasPublished =>
        commands = MapValues(Resolve(OutputsFrom(
            lastPublished.call,
            {l \in Loaders : lastPublished.results[l].status = "fulfilled"}, 1)))

SettleOrderIrrelevantWitness ==
    /\ HasPublished
    /\ lastPublished.call = 1
    /\ settleOrder = <<2, 1>>
    /\ \A l \in Loaders : lastPublished.results[l].status = "fulfilled"
    /\ Len(commands) = 3

\* C37: a reloadCommands call completes only when all its loaders' promises
\* have settled, superseded or aborted or not, and once they all have
\* settled it does complete.
CompletesWhenSettled ==
    /\ [][\A c \in 1..Len(calls) :
             (calls[c].pc = "awaiting" /\ calls'[c].pc # "awaiting") =>
                 \A l \in Loaders : calls[c].results[l].status # "pending"]_vars
    /\ \A c \in 1..MaxSettleCalls :
          (Awaiting(c) /\ AllSettled(calls[c].results)) ~>
              (c <= Len(calls) /\ calls[c].pc # "awaiting")

CompletesWhenSettledWitness ==
    /\ Len(calls) = 2
    /\ calls[1].superseded
    /\ calls[1].signal \in aborted
    /\ Awaiting(1)
    /\ \E l \in Loaders : calls[1].results[l].status = "pending"
    /\ calls[2].pc = "resolved"

\* C38: in the revision that clears the controller in a finally clause,
\* currentAbortController is the controller of the reload started last
\* while that reload is in flight, whatever earlier reloads do when they
\* finish, and null once it has completed.
OwnControllerCleared ==
    (revision = "B" /\ Len(calls) > 0) =>
        currentAbortController =
            IF Awaiting(Len(calls)) THEN Internal(Len(calls)) ELSE NoController

OwnControllerClearedWitness ==
    /\ revision = "B"
    /\ Len(calls) = 2
    /\ calls[1].superseded
    /\ calls[1].pc = "resolved"
    /\ Awaiting(2)

(***************************************************************************)
(* Extension commands and later commands of the same name                  *)
(***************************************************************************)
\* C36: every extension command that a fulfilled loader returned is in the
\* published snapshot, under its own name or a renamed one: the snapshot
\* holds as many extension commands as the loaders returned.
NoExtensionCommandLost ==
    HasPublished =>
        Cardinality({p \in 1..Len(commands) : commands[p].extensionName # ""})
            = Cardinality({i \in 1..Len(PublishedInput) :
                               PublishedInput[i].extensionName # ""})

(***************************************************************************)
(* CommandRefresher: who is called by refreshCommands()                    *)
(***************************************************************************)
\* a callback is subscribed when it was passed to subscribe and the function
\* that subscribe returned for it has not been called since
Subscribed(callback) == callback \in everSubscribed /\ callback \notin unsubscribed

ArgAt(elems, i) == elems[i + 1]

\* the flag at index i ends the scan: --prompt or -p with an element after it
PromptAt(elems, i) == IsPromptFlag(ArgAt(elems, i)) /\ i + 1 < Len(elems)

\* the index the scan looks at after the flag at index i
AfterFlag(elems, i) == IF ArgAt(elems, i) \in BOOLEAN_FLAGS THEN i + 1 ELSE i + 2

\* S is the set of indices the scan looks at: it starts at index 2, goes on
\* from a flag that is not a prompt flag with a value, and from nothing else
IsScan(elems, S) ==
    /\ (2 \in S) = (2 < Len(elems))
    /\ \A i \in S :
          (StartsWithDash(ArgAt(elems, i)) /\ ~PromptAt(elems, i) /\ AfterFlag(elems, i) < Len(elems))
              => AfterFlag(elems, i) \in S
    /\ \A j \in S \ {2} :
          \E i \in S : /\ StartsWithDash(ArgAt(elems, i))
                       /\ ~PromptAt(elems, i)
                       /\ AfterFlag(elems, i) = j

Scanned(elems) == CHOOSE S \in SUBSET (2..(Len(elems) - 1)) : IsScan(elems, S)

\* C31: with text on stdin, the scan from index 2 puts the text and a blank
\* line before the value of the first prompt flag it reaches that has an
\* element after it, or before the first positional argument it reaches,
\* boolean flags skipped alone and other flags with the element after them;
\* when it reaches neither, --prompt and the text are appended.
InjectionPoint ==
    (injected.done /\ ~Falsy(stdinData)) =>
        LET before == injected.argsBefore.elems
            after == injected.result.elems
            S == Scanned(before)
            prompts == {i \in S : PromptAt(before, i)}
            positionals == {i \in S : ~StartsWithDash(ArgAt(before, i))}
        IN  /\ \E T \in SUBSET (2..(Len(before) - 1)) : IsScan(before, T)
            /\ \A i \in prompts :
                  after = [before EXCEPT ![i + 2] = Prepended(stdinData, before[i + 2])]
            /\ \A i \in positionals :
                  after = [before EXCEPT ![i + 1] = Prepended(stdinData, before[i + 1])]
            /\ (prompts = {} /\ positionals = {}) =>
                  after = before \o <<Long("prompt"), stdinData.text>>

\* --debug is skipped alone, --model with the -p after it, and the text goes
\* before the positional argument
InjectionPointWitness ==
    /\ injected.done
    /\ stdinData = Stdin(<<"ctx">>)
    /\ injected.argsBefore.elems =
           << <<"node">>, <<"script">>, Long("debug"), Long("model"), Short("p") >>
    /\ injected.result.elems =
           << <<"node">>, <<"script">>, Long("debug"), Long("model"), Short("p"),
              Long("prompt"), <<"ctx">> >>

\* the text occurs in the string: some part of the string is the text
OccursIn(text, string) ==
    \E from \in 1..(Len(string) + 1) :
        /\ from + Len(text) - 1 <= Len(string)
        /\ \A k \in 1..Len(text) : string[from + k - 1] = text[k]

\* the array passed in is as it was, and the result differs from it in one
\* element only, which is at index 2 or later, or in the two appended ones
MinimalChange ==
    LET before == injected.argsBefore.elems
        after == injected.result.elems
    IN  /\ args = injected.argsBefore
        /\ Falsy(stdinData) => after = before
        /\ ~Falsy(stdinData) =>
              \/ after = before \o <<Long("prompt"), stdinData.text>>
              \/ /\ Len(after) = Len(before)
                 /\ \E i \in 3..Len(before) :
                       /\ after[i] = Prepended(stdinData, before[i])
                       /\ \A j \in 1..Len(before) : j # i => after[j] = before[j]

\* C39: injectStdinIntoArgs leaves the array it is given as it is; without
\* text on stdin the result equals the input, with text either one element
\* at index 2 or later has the text and a blank line put before its value
\* or --prompt and the text are appended, and every other element keeps its
\* value and its place.
InputKeptChangeMinimal == injected.done => MinimalChange

InputKeptChangeMinimalWitness ==
    /\ injected.done
    /\ stdinData = Stdin(<<"hello">>)
    /\ args.elems = << <<"node">>, <<"script">>, Long("model"), <<"hello">>, <<"hello">> >>
    /\ injected.result.elems =
           << <<"node">>, <<"script">>, Long("model"), <<"hello">>,
              <<"hello", "\n", "\n", "hello">> >>

\* C39 as stated: moreover the text from stdin occurs in exactly one
\* element of the result.
InputKeptTextOccursOnce ==
    injected.done =>
        /\ MinimalChange
        /\ ~Falsy(stdinData) =>
              Cardinality({i \in 1..Len(injected.result.elems) :
                              OccursIn(stdinData.text, injected.result.elems[i])}) = 1

(***************************************************************************)
(* RemoteAgentInvocation.execute: failures of the remote call              *)
(***************************************************************************)
\* the positions in the calls made on the manager of the calls by k
CallsBy(k, call) ==
    {i \in 1..Len(managerCalls) : managerCalls[i].by = k /\ managerCalls[i].call = call}

ExecutionFailed(result, message) ==
    /\ result.state = "fulfilled"
    /\ result.error = [defined |-> TRUE, message |-> message, type |-> "EXECUTION_FAILED"]

\* C32: the promise of execute is never rejected; when loadAgent or
\* sendMessage failed, or the response is neither a message nor a task, it
\* is fulfilled with a result whose error has type EXECUTION_FAILED and the
\* message of the failure.  loadAgent is called exactly when getClient
\* reported no client, and before sendMessage; sendMessage is not called
\* after loadAgent failed.
RemoteFailureIsResult ==
    \A k \in Invocations :
        LET e == executions[k]
        IN  /\ e.result.state # "rejected"
            /\ e.pc = "done" => e.result.state = "fulfilled"
            /\ (e.loadFailed \/ e.sendFailed) => ExecutionFailed(e.result, e.failure.text)
            /\ (/\ e.pc = "done"
                /\ ~e.loadFailed
                /\ ~e.sendFailed
                /\ e.response.kind \notin {"message", "task"})
                  => ExecutionFailed(e.result,
                                     "Received unknown response kind: " \o e.response.kind)
            /\ e.pc # "new" =>
                  Cardinality(CallsBy(k, "loadAgent")) = IF e.client THEN 0 ELSE 1
            /\ Cardinality(CallsBy(k, "sendMessage")) <= 1
            /\ \A i \in CallsBy(k, "loadAgent"), j \in CallsBy(k, "sendMessage") : i < j
            /\ e.loadFailed => CallsBy(k, "sendMessage") = {}

RemoteFailureIsResultWitness ==
    /\ executions[1].pc = "done"
    /\ ~executions[1].client
    /\ executions[1].loadFailed
    /\ executions[1].result.error.message = "Network error"
    /\ executions[2].pc = "done"
    /\ ~executions[2].client
    /\ executions[2].sendFailed
    /\ executions[2].result.error.message = "offline"

(***************************************************************************)
(* GitIgnoreParser: what is cached for a directory                         *)
(***************************************************************************)
\* C40: the .gitignore of a directory is read at most once by one parser,
\* and every isIgnored for a path directly in a directory uses the rule set
\* of the first one for that directory, so that its answer is the one that
\* rule set gives, whatever was written to .gitignore files in between.
CachedPerDirectory ==
    /\ \A dir \in Dirs : reads[dir] <= 1
    /\ lastIgnored.made =>
          /\ firstRules[Dirname(lastIgnored.path)].seen
          /\ lastIgnored.rules = firstRules[Dirname(lastIgnored.path)].rules
          /\ lastIgnored.answer =
                ignores(firstRules[Dirname(lastIgnored.path)].rules \o extraPatterns,
                        lastIgnored.path)

\* a/x was not ignored; then x was written to the .gitignore of a and of the
\* root, and a/x is still not ignored
CachedPerDirectoryWitness ==
    /\ lastIgnored.made
    /\ lastIgnored.path = <<"a", "x">>
    /\ ~lastIgnored.answer
    /\ writes = 2
    /\ gitignores[Root] = File(<< <<"x">> >>)
    /\ gitignores[<<"a">>] = File(<< <<"x">> >>)
    /\ reads[<<"a">>] = 0
    /\ patternCache[<<"a">>] = CachedAs(<<>>)

====
